---------------------------- MODULE Spec2Model ----------------------------
(***************************************************************************)
(* Vector_path: the three optimisation routines of the logistics demo.     *)
(*                                                                         *)
(*   backwardCost,                                                         *)
(*   multiStageGraphWithEdges                                              *)
(*                       src/unnamed/part_000  (MultiStageGraph module)    *)
(*   nearestNeighbor     src/unnamed/part_001  (TSP module)                *)
(*   fractionalKnapsack  src/frontend/src/components/algorithms/           *)
(*                       FractionalKnapsack.js                             *)
(*                                                                         *)
(* Each routine is a call frame (a record of its arguments and locals)     *)
(* that the actions advance one loop iteration at a time.  JavaScript      *)
(* arrays are functions on 0..len-1, so indices are those of the source.   *)
(* Infinity is the integer INF with saturating addition; fractions are     *)
(* exact rationals <<numerator, denominator>>.                             *)
(***************************************************************************)
EXTENDS Integers, Sequences, FiniteSets, TLC

VARIABLES
    op,     \* what this run does: it calls the routine "msg", "mse", "tsp" or
            \* "knap", or it mounts the dashboard, "dash"
    sg,     \* frame of backwardCost(G, n)
    nn,     \* frame of nearestNeighbor(distances, startCity)
    fk,     \* frame of fractionalKnapsack(boxes, approach, truckCapacity)
    ms,     \* frame of multiStageGraphWithEdges(numStages, nodesPerStage,
            \* edgeCostsString); its call of backwardCost runs in sg
    ui      \* the DashboardPage component: its state, its pending timer and
            \* its animation interval

vars == <<op, sg, nn, fk, ms, ui>>

-----------------------------------------------------------------------------
(* Bounds of the model *)

MaxN == 3          \* vertices of a stage graph: 2..MaxN
MaxCost == 1       \* finite edge costs: 0..MaxCost
MaxCities == 3     \* cities of a tour: 1..MaxCities
MaxDist == 2       \* finite distances: 1..MaxDist
MaxItems == 2      \* boxes of a knapsack call: 0..MaxItems
MaxWeight == 3     \* box weights: -1..MaxWeight
MaxProfit == 3     \* box profits: 1..MaxProfit
MaxCap == 3        \* truck capacities: 0..MaxCap
MaxStages == 4     \* stage counts: 0..MaxStages
MaxNodes == 2      \* nodes per stage: -1..MaxNodes
MaxOverrun == 2    \* the path walk is followed while index <= n + MaxOverrun
MaxPresses == 2    \* presses of Calculate in one run of the dashboard

-----------------------------------------------------------------------------
(* JavaScript values *)

\* const INF = Infinity
INF == 1000000

\* undefined (a read past the end of an array) and NaN, as two integers that
\* are no index, no vertex and no cost.
Undefined == 0 - 1000001
NaN == 0 - 1000002

\* a + b on numbers that may be Infinity
Plus(a, b) == IF a = INF \/ b = INF THEN INF ELSE a + b

\* [] and Array.prototype.push, length, slice(0, k), Array(n).fill(v)
EmptyArr == [k \in {} |-> 0]
ALen(a) == Cardinality(DOMAIN a)
APush(a, x) == [k \in 0..ALen(a) |-> IF k < ALen(a) THEN a[k] ELSE x]
ASlice(a, k) == [m \in 0..(k - 1) |-> a[m]]
AFill(n, v) == [k \in 0..(n - 1) |-> v]
ALast(a) == a[ALen(a) - 1]

\* a[k] for any k, and a[k] = v for an index k >= 0: a write past the end
\* lengthens the array, the entries in between are holes that read undefined.
AGet(a, k) == IF k \in DOMAIN a THEN a[k] ELSE Undefined
ASet(a, k, v) ==
    [m \in 0..(IF k < ALen(a) THEN ALen(a) - 1 ELSE k) |->
        IF m = k THEN v ELSE AGet(a, m)]

\* Exact fractions <<numerator, denominator>> in lowest terms, denominator
\* >= 0 (a zero denominator only arises from a division by zero).
Abs(x) == IF x < 0 THEN 0 - x ELSE x

RECURSIVE Gcd(_, _)
Gcd(a, b) == IF b = 0 THEN a ELSE Gcd(b, a % b)

Frac(num, den) ==
    LET s == IF den < 0 THEN 0 - 1 ELSE 1
        g == Gcd(Abs(num), Abs(den))
    IN  IF g = 0 THEN <<0, 0>> ELSE <<(s * num) \div g, (s * den) \div g>>

Whole(k) == <<k, 1>>
FAdd(a, b) == Frac(a[1] * b[2] + b[1] * a[2], a[2] * b[2])
FMul(a, b) == Frac(a[1] * b[1], a[2] * b[2])
FLess(a, b) == a[1] * b[2] < b[1] * a[2]
FLeq(a, b) == a[1] * b[2] <= b[1] * a[2]

\* Number.prototype.toFixed(2): the decimal string of the nearest multiple of
\* 0.01 (the larger one on a tie, applied to the magnitude), held as its
\* count of hundredths; "NaN" and "Infinity" for a quotient by zero.
ToFixed2(q) ==
    IF q[2] = 0
    THEN [text |-> IF q[1] = 0 THEN "NaN" ELSE "Infinity", hundredths |-> 0]
    ELSE [text |-> "number",
          hundredths |-> (IF q[1] < 0 THEN 0 - 1 ELSE 1)
                            * ((200 * Abs(q[1]) + q[2]) \div (2 * q[2]))]

-----------------------------------------------------------------------------
(* backwardCost(G, n) *)

\* Variant of ScanSuccessors: total = edgeCost, the backward cost of r is
\* left out of the sum.
RECURSIVE ScanEdgeOnly(_, _, _, _, _, _, _)
ScanEdgeOnly(G, bcost, n, j, r, minCost, nextVertex) ==
    IF r >= n THEN <<minCost, nextVertex>>
    ELSE IF r \in DOMAIN G[j] /\ G[j][r] # INF /\ G[j][r] < minCost
         THEN ScanEdgeOnly(G, bcost, n, j, r + 1, G[j][r], r)
         ELSE ScanEdgeOnly(G, bcost, n, j, r + 1, minCost, nextVertex)

\* Variant of ScanSuccessors: total <= minCost, so the last successor of a
\* tie wins and an infinite total is accepted.
RECURSIVE ScanLastWins(_, _, _, _, _, _, _)
ScanLastWins(G, bcost, n, j, r, minCost, nextVertex) ==
    IF r >= n THEN <<minCost, nextVertex>>
    ELSE IF r \in DOMAIN G[j] /\ G[j][r] # INF
              /\ Plus(bcost[r], G[j][r]) <= minCost
         THEN ScanLastWins(G, bcost, n, j, r + 1, Plus(bcost[r], G[j][r]), r)
         ELSE ScanLastWins(G, bcost, n, j, r + 1, minCost, nextVertex)

\* Variant of ScanSuccessors: the edge read is G[r][j], the entry below the
\* diagonal.
RECURSIVE ScanTransposed(_, _, _, _, _, _, _)
ScanTransposed(G, bcost, n, j, r, minCost, nextVertex) ==
    IF r >= n THEN <<minCost, nextVertex>>
    ELSE IF r \in DOMAIN G /\ j \in DOMAIN G[r] /\ G[r][j] # INF
              /\ Plus(bcost[r], G[r][j]) < minCost
         THEN ScanTransposed(G, bcost, n, j, r + 1, Plus(bcost[r], G[r][j]), r)
         ELSE ScanTransposed(G, bcost, n, j, r + 1, minCost, nextVertex)

\* The inner loop over r = j+1 .. n-1 (lines 29-40), from r with the running
\* minCost and nextVertex.  A missing entry G[j][r] is undefined: it is not
\* INF, total is NaN and NaN < minCost is false.
RECURSIVE ScanSuccessors(_, _, _, _, _, _, _)
ScanSuccessors(G, bcost, n, j, r, minCost, nextVertex) ==
    IF r >= n THEN <<minCost, nextVertex>>
    ELSE IF r \in DOMAIN G[j] /\ G[j][r] # INF
              /\ Plus(bcost[r], G[j][r]) < minCost
         THEN ScanSuccessors(G, bcost, n, j, r + 1, Plus(bcost[r], G[j][r]), r)
         ELSE ScanSuccessors(G, bcost, n, j, r + 1, minCost, nextVertex)

\* Variant of BackwardCostEnter: bcost[n - 1] = 0 is left out.
EnterSinkNotZeroed(f) ==
    [f EXCEPT !.pc = "bcost",
              !.bcost = AFill(f.n, INF),
              !.d = AFill(f.n, 0),
              !.j = f.n - 2]

\* Lines 17-21 and the loop initialisation of line 24.  With n = 0 the write
\* bcost[-1] = 0 sets a property that is no element of the array.
BackwardCostEnter(f) ==
    [f EXCEPT !.pc = "bcost",
              !.bcost = IF f.n >= 1 THEN [AFill(f.n, INF) EXCEPT ![f.n - 1] = 0]
                        ELSE AFill(f.n, INF),
              !.d = AFill(f.n, 0),
              !.j = f.n - 2]

\* Variant of BackwardCostIter: bcost[j] is the cost of the edge from j to
\* the sink alone.
IterDirectEdgeOnly(f) ==
    IF f.j \notin DOMAIN f.G
    THEN [f EXCEPT !.pc = "threw", !.error = "TypeError"]
    ELSE LET direct == AGet(f.G[f.j], f.n - 1)
         IN  [f EXCEPT !.bcost[f.j] = IF direct = Undefined THEN INF ELSE direct,
                       !.d[f.j] = IF direct \in {Undefined, INF}
                                  THEN 0 - 1 ELSE f.n - 1,
                       !.j = f.j - 1]

\* One iteration of the loop of lines 24-44.  Reading G[j][r] when row j is
\* missing throws a TypeError (property of undefined).
BackwardCostIter(f) ==
    IF f.j \notin DOMAIN f.G
    THEN [f EXCEPT !.pc = "threw", !.error = "TypeError"]
    ELSE LET m == ScanSuccessors(f.G, f.bcost, f.n, f.j, f.j + 1, INF, 0 - 1)
         IN  [f EXCEPT !.bcost[f.j] = m[1], !.d[f.j] = m[2], !.j = f.j - 1]

\* Lines 47-51: the path buffer and the walk's start.
PathInit(f) ==
    [f EXCEPT !.pc = "path", !.p = AFill(f.n + 1, 0), !.current = 0, !.index = 1]

\* Variant of PathIter: p[index] = current, the vertex left is stored.
PathIterStoresCurrent(f) ==
    IF f.current = f.n - 1 \/ f.current = 0 - 1 \/ AGet(f.d, f.current) = 0 - 1
    THEN [f EXCEPT !.pc = "return"]
    ELSE [f EXCEPT !.p = ASet(f.p, f.index, f.current),
                   !.current = AGet(f.d, f.current),
                   !.index = f.index + 1]

\* One test of the while loop of lines 54-63 and, when it passes, its body.
\* d[current] is undefined when current is no index of d, and undefined is
\* neither n - 1 nor -1.
PathIter(f) ==
    IF f.current = f.n - 1 \/ f.current = 0 - 1 \/ AGet(f.d, f.current) = 0 - 1
    THEN [f EXCEPT !.pc = "return"]
    ELSE [f EXCEPT !.p = ASet(f.p, f.index, AGet(f.d, f.current)),
                   !.current = AGet(f.d, f.current),
                   !.index = f.index + 1]

\* Variant of BackwardCostReturn: p.slice(0, index - 1).
ReturnShortPath(f) ==
    [f EXCEPT !.pc = "done",
              !.ret = [minimumCost |-> f.bcost[0],
                       path |-> ASlice(f.p, f.index - 1),
                       bcostArray |-> f.bcost,
                       decisionArray |-> f.d]]

\* Lines 66-73.
BackwardCostReturn(f) ==
    [f EXCEPT !.pc = "done",
              !.ret = [minimumCost |-> f.bcost[0],
                       path |-> ASlice(f.p, f.index),
                       bcostArray |-> f.bcost,
                       decisionArray |-> f.d]]

\* The next step of a frame, by its position.
BackwardCostStep(f) ==
    CASE f.pc = "call" -> BackwardCostEnter(f)
      [] f.pc = "bcost" /\ f.j >= 0 -> BackwardCostIter(f)
      [] f.pc = "bcost" /\ f.j < 0 -> PathInit(f)
      [] f.pc = "path" -> PathIter(f)
      [] f.pc = "return" -> BackwardCostReturn(f)
      [] OTHER -> f

\* The frame of a call that has not started.
SgFrame(G, n) ==
    [pc |-> "call", G |-> G, n |-> n, bcost |-> EmptyArr, d |-> EmptyArr,
     j |-> 0, p |-> EmptyArr, current |-> 0, index |-> 0,
     error |-> "none", ret |-> EmptyArr]

SgIdle == [SgFrame(EmptyArr, 0) EXCEPT !.pc = "idle"]

\* backwardCost(G, n) run to its end: the frame that holds the returned
\* object (pc = "done") or the error thrown (pc = "threw").
RECURSIVE BackwardCostRun(_)
BackwardCostRun(f) ==
    IF f.pc \in {"done", "threw"} THEN f
    ELSE BackwardCostRun(BackwardCostStep(f))

backwardCost(G, n) == BackwardCostRun(SgFrame(G, n))

(* The cost matrices the model calls backwardCost with *)

Costs == (0..MaxCost) \cup {INF}

\* Entries on and below the diagonal all hold one value: no edge, or a cost
\* of 0 that would be the cheapest edge of all if it were read.
LowerFill == {INF, 0}

UpperPairs(n) == {pr \in (0..(n - 1)) \X (0..(n - 1)) : pr[1] < pr[2]}

SquareMatrices(n) ==
    {[i \in 0..(n - 1) |-> [k \in 0..(n - 1) |->
          IF i < k THEN u[<<i, k>>] ELSE fill]] :
        u \in [UpperPairs(n) -> Costs], fill \in LowerFill}

\* rows x cols of the matrix passed with vertex count n: well shaped, one or
\* two rows short, or every row one entry short.
Shapes(n) == {<<n, n>>, <<n - 1, n>>, <<n - 2, n>>, <<n, n - 1>>}

Truncate(M, rows, cols) ==
    [i \in 0..(rows - 1) |-> [k \in 0..(cols - 1) |-> M[i][k]]]

WellShaped(G, n) ==
    /\ DOMAIN G = 0..(n - 1)
    /\ \A i \in DOMAIN G : DOMAIN G[i] = 0..(n - 1)

\* The matrix of the edge list "0-1:2, 0-2:3, 1-3:4, 2-3:5" on four vertices.
ExampleCostMatrix ==
    [i \in 0..3 |-> [k \in 0..3 |->
        CASE i = 0 /\ k = 1 -> 2
          [] i = 0 /\ k = 2 -> 3
          [] i = 1 /\ k = 3 -> 4
          [] i = 2 /\ k = 3 -> 5
          [] OTHER -> INF]]

-----------------------------------------------------------------------------
(* multiStageGraphWithEdges(numStages, nodesPerStage, edgeCostsString) *)

\* A string is the sequence of its characters.
Digits == <<"0", "1", "2", "3", "4", "5", "6", "7", "8", "9">>
DigitChars == {Digits[k] : k \in 1..10}
DigitOf(c) == (CHOOSE k \in 1..10 : Digits[k] = c) - 1

\* String(k) of an integer k: what parseInt turns a number into before it
\* reads it.
RECURSIVE DigitsOf(_)
DigitsOf(k) ==
    IF k < 10 THEN <<Digits[k + 1]>>
    ELSE Append(DigitsOf(k \div 10), Digits[(k % 10) + 1])

NumberToString(k) == IF k < 0 THEN <<"-">> \o DigitsOf(0 - k) ELSE DigitsOf(k)

\* String.prototype.trim; the only white space of the strings here is " ".
RECURSIVE TrimStart(_)
TrimStart(s) == IF s # <<>> /\ Head(s) = " " THEN TrimStart(Tail(s)) ELSE s

RECURSIVE TrimEnd(_)
TrimEnd(s) ==
    IF s # <<>> /\ s[Len(s)] = " " THEN TrimEnd(SubSeq(s, 1, Len(s) - 1)) ELSE s

Trim(s) == TrimEnd(TrimStart(s))

\* String.prototype.split on the separator characters seps, from position i
\* with the piece cur begun: the pieces, empty ones included.
RECURSIVE SplitFrom(_, _, _, _)
SplitFrom(s, seps, i, cur) ==
    IF i > Len(s) THEN <<cur>>
    ELSE IF s[i] \in seps THEN <<cur>> \o SplitFrom(s, seps, i + 1, <<>>)
    ELSE SplitFrom(s, seps, i + 1, Append(cur, s[i]))

Split(s, seps) == SplitFrom(s, seps, 1, <<>>)

\* The value of the run of digits of s that starts at position i.
RECURSIVE DigitsValue(_, _, _)
DigitsValue(s, i, acc) ==
    IF i > Len(s) \/ s[i] \notin DigitChars THEN acc
    ELSE DigitsValue(s, i + 1, 10 * acc + DigitOf(s[i]))

\* parseInt(s): leading white space is skipped, then an optional "-" and the
\* longest run of digits are read; NaN when there is no digit to read.
ParseInt(s) ==
    LET t == TrimStart(s)
        neg == t # <<>> /\ Head(t) = "-"
        u == IF neg THEN Tail(t) ELSE t
    IN  IF u = <<>> \/ Head(u) \notin DigitChars THEN NaN
        ELSE IF neg THEN 0 - DigitsValue(u, 1, 0) ELSE DigitsValue(u, 1, 0)

\* parseFloat(s): the strings here hold no ".", no exponent and no letter of
\* "Infinity", so the number read is the one parseInt reads.
ParseFloat(s) == ParseInt(s)

\* Lines 111-123: stage 0 holds vertex 0, every stage 1 .. stages-2 the next
\* `nodes` indices, and entry stages-1, written last, holds n-1.  The keys
\* are those the code writes, a negative one included.
StageVertices(stages, nodes, n) ==
    [st \in {0} \cup (1..(stages - 2)) \cup {stages - 1} |->
        IF st = stages - 1 THEN AFill(1, n - 1)
        ELSE IF st = 0 THEN AFill(1, 0)
        ELSE [i \in 0..(nodes - 1) |-> 1 + (st - 1) * nodes + i]]

\* Lines 84-95: the vertex count, the matrix of INF and the edge texts.
\* Array(n) throws a RangeError when n is negative.
MseEnter(f) ==
    LET stages == ParseInt(NumberToString(f.numStages))
        nodes == ParseInt(NumberToString(f.nodesPerStage))
        n == 1 + (stages - 2) * nodes + 1
    IN  IF n < 0
        THEN [f EXCEPT !.pc = "threw", !.error = "RangeError",
                       !.stages = stages, !.nodes = nodes, !.n = n]
        ELSE [f EXCEPT !.pc = "parse",
                       !.stages = stages, !.nodes = nodes, !.n = n,
                       !.costMatrix = AFill(n, AFill(n, INF)),
                       !.edges = IF Trim(f.edgeCostsString) # <<>>
                                 THEN Split(f.edgeCostsString, {","})
                                 ELSE <<>>]

\* Variant of MseParseEdge: costMatrix[to][from] = cost.
ParseEdgeTransposed(f) ==
    LET parts == Split(Trim(Head(f.edges)), {"-", ":"})
        from == ParseInt(parts[1])
        to == ParseInt(parts[2])
        cost == ParseFloat(parts[3])
    IN  IF /\ Len(parts) = 3
           /\ from # NaN /\ to # NaN /\ cost # NaN
           /\ from < f.n /\ to < f.n
        THEN [f EXCEPT !.costMatrix[to][from] = cost, !.edges = Tail(f.edges)]
        ELSE [f EXCEPT !.edges = Tail(f.edges)]

\* One iteration of the loop of lines 96-107, on the first edge text left.
MseParseEdge(f) ==
    LET parts == Split(Trim(Head(f.edges)), {"-", ":"})
        from == ParseInt(parts[1])
        to == ParseInt(parts[2])
        cost == ParseFloat(parts[3])
    IN  IF /\ Len(parts) = 3
           /\ from # NaN /\ to # NaN /\ cost # NaN
           /\ from < f.n /\ to < f.n
        THEN [f EXCEPT !.costMatrix[from][to] = cost, !.edges = Tail(f.edges)]
        ELSE [f EXCEPT !.edges = Tail(f.edges)]

\* Lines 110-123, up to the call of line 126.
MseBuildStages(f) ==
    [f EXCEPT !.pc = "solve",
              !.stageVertices = StageVertices(f.stages, f.nodes, f.n)]

\* Lines 126-144 once backwardCost has ended in the frame g: its error
\* goes on to the caller, its result is returned with the graph.
MseReturn(f, g) ==
    IF g.pc = "threw" THEN [f EXCEPT !.pc = "threw", !.error = g.error]
    ELSE [f EXCEPT !.pc = "done",
                   !.ret = [type |-> "multistage",
                            minimumCost |-> g.ret.minimumCost,
                            cost |-> g.ret.minimumCost,
                            path |-> g.ret.path,
                            displayPath |->
                                [k \in DOMAIN g.ret.path |-> g.ret.path[k] + 1],
                            stages |-> f.stages,
                            nodesPerStage |-> f.nodes,
                            totalVertices |-> f.n,
                            costMatrix |-> f.costMatrix,
                            stageVertices |-> f.stageVertices,
                            bcostArray |-> g.ret.bcostArray,
                            decisionArray |-> g.ret.decisionArray]]

\* The frame of a call that has not started.
MseFrame(numStages, nodesPerStage, edgeCostsString) ==
    [pc |-> "call", numStages |-> numStages, nodesPerStage |-> nodesPerStage,
     edgeCostsString |-> edgeCostsString, stages |-> 0, nodes |-> 0, n |-> 0,
     costMatrix |-> EmptyArr, edges |-> <<>>, stageVertices |-> EmptyArr,
     error |-> "none", ret |-> EmptyArr]

MsIdle == [MseFrame(0, 0, <<>>) EXCEPT !.pc = "idle"]

(* The stage counts, node counts and edge texts the model calls
   multiStageGraphWithEdges with *)

StageCounts == 0..MaxStages
NodeCounts == (0 - 1)..MaxNodes

\* "0-1:2, 0-2:3, 1-3:4, 2-3:5"
PlaceholderEdges ==
    <<"0", "-", "1", ":", "2", ",", " ", "0", "-", "2", ":", "3", ",", " ",
      "1", "-", "3", ":", "4", ",", " ", "2", "-", "3", ":", "5">>

\* "0-1:1,1-2:0,0-5:1,2-1:1": no blanks, an endpoint past every vertex count
\* here, and an edge below the diagonal.
DenseEdges ==
    <<"0", "-", "1", ":", "1", ",", "1", "-", "2", ":", "0", ",", "0", "-",
      "5", ":", "1", ",", "2", "-", "1", ":", "1">>

\* " 0-1:x,1:2, 0-1-2:3 ,0-3:12 ": a cost that is no number, a text of two
\* parts, a text of four parts, and a cost of two digits.
MalformedEdges ==
    <<" ", "0", "-", "1", ":", "x", ",", "1", ":", "2", ",", " ", "0", "-",
      "1", "-", "2", ":", "3", " ", ",", "0", "-", "3", ":", "1", "2", " ">>

EdgeCostsStrings ==
    {<<>>, <<" ", " ">>, PlaceholderEdges, DenseEdges, MalformedEdges}

-----------------------------------------------------------------------------
(* nearestNeighbor(distances, startCity) *)

\* Variant of ScanCities: distances[currentCity][city] <= minDistance, so the
\* last city of a tie wins.
RECURSIVE ScanCitiesLastWins(_, _, _, _, _, _, _)
ScanCitiesLastWins(distances, visited, currentCity, n, city, nearestCity, minDistance) ==
    IF city >= n THEN <<nearestCity, minDistance>>
    ELSE IF ~visited[city] /\ distances[currentCity][city] <= minDistance
         THEN ScanCitiesLastWins(distances, visited, currentCity, n, city + 1,
                                 city, distances[currentCity][city])
         ELSE ScanCitiesLastWins(distances, visited, currentCity, n, city + 1,
                                 nearestCity, minDistance)

\* The scan over city = 0 .. n-1 (lines 62-67), from city with the running
\* nearestCity and minDistance.
RECURSIVE ScanCities(_, _, _, _, _, _, _)
ScanCities(distances, visited, currentCity, n, city, nearestCity, minDistance) ==
    IF city >= n THEN <<nearestCity, minDistance>>
    ELSE IF ~visited[city] /\ distances[currentCity][city] < minDistance
         THEN ScanCities(distances, visited, currentCity, n, city + 1,
                         city, distances[currentCity][city])
         ELSE ScanCities(distances, visited, currentCity, n, city + 1,
                         nearestCity, minDistance)

\* Lines 49-54 and the loop initialisation of line 57.
NearestNeighborEnter(f) ==
    LET n == ALen(f.distances)
    IN  [f EXCEPT !.pc = "visit",
                  !.n = n,
                  !.visited = [AFill(n, FALSE) EXCEPT ![f.startCity] = TRUE],
                  !.tour = APush(EmptyArr, f.startCity),
                  !.totalDistance = 0,
                  !.currentCity = f.startCity,
                  !.step = 0]

\* Variant of NearestNeighborIter: the city appended is not marked visited.
IterWithoutMark(f) ==
    LET m == ScanCities(f.distances, f.visited, f.currentCity, f.n, 0, 0 - 1, INF)
    IN  IF m[1] # 0 - 1
        THEN [f EXCEPT !.tour = APush(f.tour, m[1]),
                       !.totalDistance = Plus(f.totalDistance, m[2]),
                       !.currentCity = m[1],
                       !.step = f.step + 1]
        ELSE [f EXCEPT !.step = f.step + 1]

\* Variant of NearestNeighborIter: a step that finds no city moves on to the
\* lowest unvisited city without appending it.
IterMovesOnWhenStuck(f) ==
    LET m == ScanCities(f.distances, f.visited, f.currentCity, f.n, 0, 0 - 1, INF)
        left == {c \in 0..(f.n - 1) : ~f.visited[c]}
    IN  IF m[1] # 0 - 1
        THEN [f EXCEPT !.tour = APush(f.tour, m[1]),
                       !.visited[m[1]] = TRUE,
                       !.totalDistance = Plus(f.totalDistance, m[2]),
                       !.currentCity = m[1],
                       !.step = f.step + 1]
        ELSE [f EXCEPT !.currentCity = IF left = {} THEN f.currentCity
                                       ELSE CHOOSE c \in left : \A o \in left : c <= o,
                       !.step = f.step + 1]

\* One iteration of the loop of lines 57-76.
NearestNeighborIter(f) ==
    LET m == ScanCities(f.distances, f.visited, f.currentCity, f.n, 0, 0 - 1, INF)
    IN  IF m[1] # 0 - 1
        THEN [f EXCEPT !.tour = APush(f.tour, m[1]),
                       !.visited[m[1]] = TRUE,
                       !.totalDistance = Plus(f.totalDistance, m[2]),
                       !.currentCity = m[1],
                       !.step = f.step + 1]
        ELSE [f EXCEPT !.step = f.step + 1]

\* Variant of NearestNeighborClose: the distance back to the start is not
\* added.
CloseWithoutReturn(f) ==
    LET tour == APush(f.tour, f.startCity)
    IN  [f EXCEPT !.pc = "done",
                  !.tour = tour,
                  !.ret = [tour |-> tour,
                           totalDistance |-> f.totalDistance,
                           allVisited |-> \A c \in DOMAIN f.visited : f.visited[c],
                           numCitiesVisited |->
                               Cardinality({c \in DOMAIN f.visited : f.visited[c]})]]

\* Variant of NearestNeighborClose: allVisited = visited.some(v => v === true).
CloseSomeVisited(f) ==
    LET total == Plus(f.totalDistance, f.distances[f.currentCity][f.startCity])
        tour == APush(f.tour, f.startCity)
    IN  [f EXCEPT !.pc = "done",
                  !.totalDistance = total,
                  !.tour = tour,
                  !.ret = [tour |-> tour,
                           totalDistance |-> total,
                           allVisited |-> \E c \in DOMAIN f.visited : f.visited[c],
                           numCitiesVisited |->
                               Cardinality({c \in DOMAIN f.visited : f.visited[c]})]]

\* Lines 79-91: the way back, the validation and the returned object.
NearestNeighborClose(f) ==
    LET total == Plus(f.totalDistance, f.distances[f.currentCity][f.startCity])
        tour == APush(f.tour, f.startCity)
    IN  [f EXCEPT !.pc = "done",
                  !.totalDistance = total,
                  !.tour = tour,
                  !.ret = [tour |-> tour,
                           totalDistance |-> total,
                           allVisited |-> \A c \in DOMAIN f.visited : f.visited[c],
                           numCitiesVisited |->
                               Cardinality({c \in DOMAIN f.visited : f.visited[c]})]]

NearestNeighborStep(f) ==
    CASE f.pc = "call" -> NearestNeighborEnter(f)
      [] f.pc = "visit" /\ f.step < f.n - 1 -> NearestNeighborIter(f)
      [] f.pc = "visit" /\ f.step >= f.n - 1 -> NearestNeighborClose(f)
      [] OTHER -> f

\* The frame of a call that has not started.
NnFrame(distances, startCity) ==
    [pc |-> "call", distances |-> distances, startCity |-> startCity, n |-> 0,
     visited |-> EmptyArr, tour |-> EmptyArr, totalDistance |-> 0,
     currentCity |-> 0, step |-> 0, ret |-> EmptyArr]

NnIdle == [NnFrame(EmptyArr, 0) EXCEPT !.pc = "idle"]

RECURSIVE NearestNeighborRun(_)
NearestNeighborRun(f) ==
    IF f.pc = "done" THEN f ELSE NearestNeighborRun(NearestNeighborStep(f))

nearestNeighbor(distances, startCity) ==
    NearestNeighborRun(NnFrame(distances, startCity))

(* The distance matrices the model calls nearestNeighbor with: symmetric, as
   the dashboard (lines 437-461) and buildDistanceMatrix build them; a pair
   the edge list does not name stays Infinity. *)

Dists == (1..MaxDist) \cup {INF}

Diagonals == {0, 1}

DistanceMatrices(n) ==
    {[i \in 0..(n - 1) |-> [k \in 0..(n - 1) |->
          IF i < k THEN u[<<i, k>>] ELSE IF k < i THEN u[<<k, i>>] ELSE dg]] :
        u \in [UpperPairs(n) -> Dists], dg \in Diagonals}

\* Three cities at the distances d(0,1) = 10, d(0,2) = 15, d(1,2) = 12.
ExampleDistances ==
    [i \in 0..2 |-> [k \in 0..2 |->
        CASE i = k -> 0
          [] {i, k} = {0, 1} -> 10
          [] {i, k} = {0, 2} -> 15
          [] OTHER -> 12]]

-----------------------------------------------------------------------------
(* fractionalKnapsack(boxes, approach, truckCapacity) *)

\* Variant of SwapNeeded: the approach is not looked at, every call orders
\* by ratio.
SwapNeededRatioOnly(a, b, approach) == FLess(a.ratio, b.ratio)

\* Lines 19-25: whether sortBoxes swaps boxes[i] and boxes[j].
SwapNeeded(a, b, approach) ==
    \/ approach = 1 /\ a.weight > b.weight
    \/ approach = 2 /\ a.profit < b.profit
    \/ approach = 3 /\ FLess(a.ratio, b.ratio)

\* The two nested loops of sortBoxes (lines 15-33) from the pair (i, j) on.
RECURSIVE SortFrom(_, _, _, _)
SortFrom(boxes, approach, i, j) ==
    IF i >= ALen(boxes) - 1 THEN boxes
    ELSE IF j >= ALen(boxes) THEN SortFrom(boxes, approach, i + 1, i + 2)
    ELSE IF SwapNeeded(boxes[i], boxes[j], approach)
         THEN SortFrom([boxes EXCEPT ![i] = boxes[j], ![j] = boxes[i]],
                       approach, i, j + 1)
         ELSE SortFrom(boxes, approach, i, j + 1)

\* Variant of sortBoxes: approach 3 orders the ratios ascending.
RECURSIVE SortRatioAscendingFrom(_, _, _, _)
SortRatioAscendingFrom(boxes, approach, i, j) ==
    IF i >= ALen(boxes) - 1 THEN boxes
    ELSE IF j >= ALen(boxes)
         THEN SortRatioAscendingFrom(boxes, approach, i + 1, i + 2)
    ELSE IF \/ approach = 1 /\ boxes[i].weight > boxes[j].weight
            \/ approach = 2 /\ boxes[i].profit < boxes[j].profit
            \/ approach = 3 /\ FLess(boxes[j].ratio, boxes[i].ratio)
         THEN SortRatioAscendingFrom(
                  [boxes EXCEPT ![i] = boxes[j], ![j] = boxes[i]],
                  approach, i, j + 1)
         ELSE SortRatioAscendingFrom(boxes, approach, i, j + 1)

sortBoxesRatioAscending(boxes, approach) ==
    SortRatioAscendingFrom(boxes, approach, 0, 1)

\* sortBoxes(boxes, approach): the array after the in-place sort.
sortBoxes(boxes, approach) == SortFrom(boxes, approach, 0, 1)

\* Variant of BoxRatio: profit / weight whatever the weight.
BoxRatioUnguarded(box) == Frac(box.profit, box.weight)

\* Line 50: the ratio of a box, 0 unless its weight is positive.
BoxRatio(box) ==
    IF box.weight > 0 THEN Frac(box.profit, box.weight) ELSE Whole(0)

\* Lines 45-51: the records of the working copy.  The caller's records hold
\* numbers, which parseFloat returns as they are, and carry no index; name
\* is copied along and read by nothing here, and is left out.
MapBoxes(boxes) ==
    [k \in DOMAIN boxes |->
        [index |-> k, weight |-> boxes[k].weight, profit |-> boxes[k].profit,
         ratio |-> BoxRatio(boxes[k])]]

\* Variant of TempRef: const temp = boxes, the working array is the caller's.
TempRefAliased == "boxes"

\* The array that line 45 binds temp to: the new array boxes.map returns.
TempRef == "temp"

Temp(f) == f.heap[TempRef]

\* Variant of KnapsackEnter: sortBoxes is not called.
EnterUnsorted(f) ==
    [f EXCEPT !.pc = "select",
              !.heap = [f.heap EXCEPT ![TempRef] = MapBoxes(f.heap["boxes"])],
              !.totalProfit = Whole(0),
              !.capacity = f.truckCapacity,
              !.selectedBoxes = EmptyArr,
              !.i = 0]

\* Lines 45-58 and the loop initialisation of line 60: the working copy is
\* stored, sorted in place, and the accumulators are set.
KnapsackEnter(f) ==
    LET copied == [f.heap EXCEPT ![TempRef] = MapBoxes(f.heap["boxes"])]
        sorted == [copied EXCEPT ![TempRef] = sortBoxes(copied[TempRef], f.approach)]
    IN  [f EXCEPT !.pc = "select",
                  !.heap = sorted,
                  !.totalProfit = Whole(0),
                  !.capacity = f.truckCapacity,
                  !.selectedBoxes = EmptyArr,
                  !.i = 0]

\* The record pushed for temp[i] (lines 68-73 and 79-84).
Taken(box, fraction, takenWeight, takenProfit) ==
    [index |-> box.index, weight |-> box.weight, profit |-> box.profit,
     ratio |-> box.ratio, fraction |-> fraction,
     takenWeight |-> takenWeight, takenProfit |-> takenProfit]

\* Variant of KnapsackIter: the box that does not fit is loaded whole.
IterLoadsWhole(f) ==
    LET box == Temp(f)[f.i]
    IN  [f EXCEPT !.totalProfit = FAdd(f.totalProfit, Whole(box.profit)),
                  !.capacity = IF box.weight <= f.capacity
                               THEN f.capacity - box.weight ELSE 0,
                  !.selectedBoxes = APush(f.selectedBoxes,
                      Taken(box, Whole(1), box.weight, Whole(box.profit))),
                  !.i = f.i + 1]

\* Variant of KnapsackIter: capacity = 0 is left out after a fractional take.
IterKeepsCapacity(f) ==
    LET box == Temp(f)[f.i]
        w == box.weight
        p == box.profit
        fraction == Frac(f.capacity, w)
        fractionalProfit == FMul(Whole(p), fraction)
    IN  IF w <= f.capacity
        THEN [f EXCEPT !.totalProfit = FAdd(f.totalProfit, Whole(p)),
                       !.capacity = f.capacity - w,
                       !.selectedBoxes = APush(f.selectedBoxes,
                           Taken(box, Whole(1), w, Whole(p))),
                       !.i = f.i + 1]
        ELSE [f EXCEPT !.totalProfit = FAdd(f.totalProfit, fractionalProfit),
                       !.selectedBoxes = APush(f.selectedBoxes,
                           Taken(box, fraction, f.capacity, fractionalProfit)),
                       !.i = f.i + 1]

\* One iteration of the loop of lines 60-87.
KnapsackIter(f) ==
    LET box == Temp(f)[f.i]
        w == box.weight
        p == box.profit
        fraction == Frac(f.capacity, w)
        fractionalProfit == FMul(Whole(p), fraction)
    IN  IF w <= f.capacity
        THEN [f EXCEPT !.totalProfit = FAdd(f.totalProfit, Whole(p)),
                       !.capacity = f.capacity - w,
                       !.selectedBoxes = APush(f.selectedBoxes,
                           Taken(box, Whole(1), w, Whole(p))),
                       !.i = f.i + 1]
        ELSE [f EXCEPT !.totalProfit = FAdd(f.totalProfit, fractionalProfit),
                       !.capacity = 0,
                       !.selectedBoxes = APush(f.selectedBoxes,
                           Taken(box, fraction, f.capacity, fractionalProfit)),
                       !.i = f.i + 1]

\* Lines 89-102.
KnapsackReturn(f) ==
    LET usedCapacity == f.truckCapacity - f.capacity
        efficiency == IF f.truckCapacity > 0
                      THEN Frac(f.totalProfit[1], f.totalProfit[2] * usedCapacity)
                      ELSE Whole(0)
    IN  [f EXCEPT !.pc = "done",
                  !.ret = [type |-> "knapsack",
                           totalProfit |-> ToFixed2(f.totalProfit),
                           selectedBoxes |-> f.selectedBoxes,
                           usedCapacity |-> usedCapacity,
                           remainingCapacity |-> f.capacity,
                           capacity |-> f.truckCapacity,
                           efficiency |-> ToFixed2(efficiency),
                           approach |-> f.approach,
                           approachName |->
                               IF f.approach = 1 THEN "Weight-based"
                               ELSE IF f.approach = 2 THEN "Profit-based"
                               ELSE "Ratio-based"]]

\* Variant of KnapsackLoops: i < temp.length alone.
LoopsWhileBoxesLeft(f) == f.i < ALen(Temp(f))

\* The loop test of line 60.
KnapsackLoops(f) == f.i < ALen(Temp(f)) /\ f.capacity > 0

KnapsackStep(f) ==
    CASE f.pc = "call" -> KnapsackEnter(f)
      [] f.pc = "select" /\ KnapsackLoops(f) -> KnapsackIter(f)
      [] f.pc = "select" /\ ~KnapsackLoops(f) -> KnapsackReturn(f)
      [] OTHER -> f

\* The frame of a call that has not started.  boxes is the caller's array as
\* it is passed; heap holds the arrays the call can write to: the caller's
\* and the working copy.
FkFrame(boxes, approach, truckCapacity) ==
    [pc |-> "call", boxes |-> boxes, approach |-> approach,
     truckCapacity |-> truckCapacity,
     heap |-> [r \in {"boxes", "temp"} |-> IF r = "boxes" THEN boxes ELSE EmptyArr],
     totalProfit |-> Whole(0), capacity |-> 0, selectedBoxes |-> EmptyArr,
     i |-> 0, error |-> "none", ret |-> EmptyArr]

FkIdle == [FkFrame(EmptyArr, 3, 0) EXCEPT !.pc = "idle"]

RECURSIVE KnapsackRun(_)
KnapsackRun(f) ==
    IF f.pc \in {"done", "threw"} THEN f ELSE KnapsackRun(KnapsackStep(f))

fractionalKnapsack(boxes, approach, truckCapacity) ==
    KnapsackRun(FkFrame(boxes, approach, truckCapacity))

(* The item lists, orderings and capacities the model calls
   fractionalKnapsack with *)

Weights == (0 - 1)..MaxWeight
Profits == 1..MaxProfit
Capacities == 0..MaxCap
Approaches == 1..3

BoxRecords == [weight : Weights, profit : Profits]

BoxArrays == UNION {[0..(k - 1) -> BoxRecords] : k \in 0..MaxItems}

\* The packages "10:60, 20:100, 15:120" and a truck of capacity 25.
ExampleBoxes ==
    (0 :> [weight |-> 10, profit |-> 60]
        @@ 1 :> [weight |-> 20, profit |-> 100]
        @@ 2 :> [weight |-> 15, profit |-> 120])

ExampleCapacity == 25

-----------------------------------------------------------------------------
(* DashboardPage: the state of the component, handleCalculate and its
   800 ms timer, handleReset, the algorithm buttons and the animation
   effect *)

\* result === null.  A result is a record, and so is this.
NoResult == [type |-> "null"]

\* The number of entries the animation steps through (lines 542-546).
AnimationSteps(result) ==
    IF result.type = "multistage" THEN ALen(result.path)
    ELSE IF result.type = "tsp" THEN ALen(result.tour)
    ELSE ALen(result.selectedPackages)

\* Lines 540-566, as React runs the effect after a render that changed
\* showAnimation or result: the interval of the effect that ran before is
\* cleared, and a new one is set when there is a result to animate.
AnimationEffect(u) ==
    IF u.showAnimation /\ u.result # NoResult
    THEN [u EXCEPT !.currentStep = 0,
                   !.animationProgress = Whole(0),
                   !.interval = TRUE]
    ELSE [u EXCEPT !.interval = FALSE]

\* Lines 551-562: one tick of the interval.
AnimationTick(u) ==
    LET steps == AnimationSteps(u.result)
        next == u.currentStep + 1
    IN  IF next >= steps - 1
        THEN [u EXCEPT !.currentStep = steps - 1,
                       !.animationProgress = Frac((next + 1) * 100, steps),
                       !.interval = FALSE]
        ELSE [u EXCEPT !.currentStep = next,
                       !.animationProgress = Frac((next + 1) * 100, steps)]

\* Lines 396-403: the state handleCalculate sets and the timer it starts.
\* The callback closes over the algorithm selected at the press.
HandleCalculate(u) ==
    AnimationEffect([u EXCEPT !.isCalculating = TRUE,
                              !.showAnimation = FALSE,
                              !.result = NoResult,
                              !.animationProgress = Whole(0),
                              !.currentStep = 0,
                              !.timer = u.selectedAlgorithm,
                              !.cleared = FALSE])

\* Lines 533-538.  The timer and isCalculating are left as they are.
HandleReset(u) ==
    AnimationEffect([u EXCEPT !.result = NoResult,
                              !.showAnimation = FALSE,
                              !.animationProgress = Whole(0),
                              !.currentStep = 0,
                              !.cleared = TRUE])

\* Lines 611-614: the onClick of an algorithm button.
SelectAlgorithm(u, id) == HandleReset([u EXCEPT !.selectedAlgorithm = id])

\* toast.error(...); setIsCalculating(false); return  (lines 412-414,
\* 421-423, 432-434, 462-464, 471-473, 514-516).
ReportError(u) ==
    [u EXCEPT !.toasts = Append(u.toasts, "error"),
              !.isCalculating = FALSE,
              !.pc = "idle",
              !.calling = "none",
              !.texts = <<>>,
              !.distances = EmptyArr,
              !.packages = EmptyArr]

\* Lines 520-529.  computationTime, a reading of the clock, is left out.
StoreResult(u, calculatedResult) ==
    AnimationEffect([u EXCEPT !.result = calculatedResult,
                              !.isCalculating = FALSE,
                              !.showAnimation = TRUE,
                              !.toasts = Append(u.toasts, "success"),
                              !.pc = "idle",
                              !.calling = "none",
                              !.texts = <<>>,
                              !.distances = EmptyArr,
                              !.packages = EmptyArr])

\* Lines 446-457, the callback of edges.forEach on one edge text: the
\* matrix after the two writes, or the TypeError of a write to a row that
\* does not exist (distances[from] for the first write, distances[to] for
\* the second), which leaves a matrix nothing reads.
SetDistance(D, edge) ==
    LET parts == Split(Trim(edge), {"-", ":"})
        from == ParseInt(parts[1])
        to == ParseInt(parts[2])
        dist == ParseInt(parts[3])
    IN  IF Len(parts) = 3 /\ from # NaN /\ to # NaN /\ dist # NaN
        THEN IF from \notin DOMAIN D \/ to \notin DOMAIN D
             THEN [threw |-> TRUE, distances |-> D]
             ELSE [threw |-> FALSE,
                   distances |-> [D EXCEPT ![from][to] = dist,
                                           ![to][from] = dist]]
        ELSE [threw |-> FALSE, distances |-> D]

\* Lines 437-442: the matrix of Infinity with a zero diagonal.
UnsetDistances(numLocations) ==
    [i \in 0..(numLocations - 1) |->
        [k \in 0..(numLocations - 1) |-> IF i = k THEN 0 ELSE INF]]

\* tsp(numCities, null, distances), part_001 lines 123-164, once its call of
\* nearestNeighbor has ended in the frame f.  The city positions, drawn at
\* random, the tour segments and the formatted distances are read by
\* nothing here and are left out.
TspResult(numCities, f) ==
    [type |-> "tsp",
     tour |-> f.ret.tour,
     numCities |-> numCities,
     allVisited |-> f.ret.allVisited,
     numCitiesVisited |-> f.ret.numCitiesVisited,
     distanceMatrix |-> f.distances]

\* Lines 427-445: the TSP branch of the timer callback up to the loop over
\* the edge texts.  The location counts here are digits of a positive
\* number.
TspBranch(u) ==
    LET distanceMatrixString == Trim(u.inputs.distanceMatrix)
    IN  IF distanceMatrixString = <<>> THEN ReportError(u)
        ELSE [u EXCEPT !.pc = "callback",
                       !.calling = "tsp",
                       !.distances =
                           UnsetDistances(ParseInt(u.inputs.numLocations)),
                       !.texts = Split(distanceMatrixString, {","})]

\* One iteration of edges.forEach (lines 446-457); the TypeError is caught
\* and reported (lines 460-464).
TspEdge(u) ==
    LET set == SetDistance(u.distances, Head(u.texts))
    IN  IF set.threw THEN ReportError(u)
        ELSE [u EXCEPT !.distances = set.distances, !.texts = Tail(u.texts)]

\* Line 459: tsp(numLocations, null, distances), whose call of
\* nearestNeighbor runs in the frame nn.
TspCall(u) == NnFrame(u.distances, 0)

\* Lines 459 and 520-529 once the call has ended in the frame f.
TspEnd(u, f) == StoreResult(u, TspResult(ParseInt(u.inputs.numLocations), f))

\* Lines 476-496, the callback of map on one package text: the record, or
\* the Error thrown.  ratio, which fractionalKnapsack computes again, is
\* left out.
ParsePackage(pkg, index) ==
    LET parts == Split(Trim(pkg), {":"})
        weight == ParseFloat(parts[1])
        profit == ParseFloat(parts[2])
    IN  IF Len(parts) # 3 THEN [threw |-> TRUE]
        ELSE IF weight = NaN \/ profit = NaN THEN [threw |-> TRUE]
        ELSE [threw |-> FALSE,
              package |-> [index |-> index, weight |-> weight,
                           profit |-> profit, name |-> Trim(parts[3])]]

\* Lines 501-509: the records the animation reads.
SelectedPackages(selectedBoxes, packages) ==
    [k \in DOMAIN selectedBoxes |->
        [id |-> selectedBoxes[k].index,
         weight |-> selectedBoxes[k].weight,
         value |-> selectedBoxes[k].profit,
         name |-> packages[selectedBoxes[k].index].name,
         fraction |-> selectedBoxes[k].fraction,
         takenWeight |-> selectedBoxes[k].takenWeight,
         takenValue |-> selectedBoxes[k].takenProfit]]

\* Lines 467-476: the knapsack branch of the timer callback up to the map
\* over the package texts.
KnapsackBranch(u) ==
    LET packageString == Trim(u.inputs.packageDetails)
    IN  IF packageString = <<>> THEN ReportError(u)
        ELSE [u EXCEPT !.pc = "callback",
                       !.calling = "knapsack",
                       !.packages = EmptyArr,
                       !.texts = Split(packageString, {","})]

\* One call of the callback of map (lines 476-496); its Error is caught and
\* reported (lines 512-516).
KnapsackPackage(u) ==
    LET parsed == ParsePackage(Head(u.texts), ALen(u.packages))
    IN  IF parsed.threw THEN ReportError(u)
        ELSE [u EXCEPT !.packages = APush(u.packages, parsed.package),
                       !.texts = Tail(u.texts)]

\* Line 498: fractionalKnapsack(packages, 3, parseInt(capacity)), which runs
\* in the frame fk.
KnapsackCall(u) == FkFrame(u.packages, 3, ParseInt(u.inputs.capacity))

\* Lines 498-511 and 520-529 once the call has ended in the frame f.
KnapsackEnd(u, f) ==
    StoreResult(u,
        f.ret @@ [selectedPackages |->
                      SelectedPackages(f.ret.selectedBoxes, f.boxes),
                  totalValue |-> f.ret.totalProfit,
                  allPackages |-> f.boxes])

\* Lines 408-420: the multistage branch of the timer callback up to its call
\* of multiStageGraphWithEdges, which runs in the frame ms.  The stage and
\* node texts here are digits, and the numbers parseInt reads from them are
\* passed on.
MultistageBranch(u) ==
    IF Trim(u.inputs.edgeCosts) = <<>> THEN ReportError(u)
    ELSE [u EXCEPT !.pc = "callback", !.calling = "multistage"]

MultistageCall(u) ==
    MseFrame(ParseInt(u.inputs.stages), ParseInt(u.inputs.nodesPerStage),
             Trim(u.inputs.edgeCosts))

\* Lines 416-424 and 520-529 once the call has ended in the frame f: its
\* error is caught and reported, its result is stored.
MultistageEnd(u, f) ==
    IF f.pc = "threw" THEN ReportError(u) ELSE StoreResult(u, f.ret)

\* The component after its first render (lines 349-376), with the texts of
\* the input fields; pc tells whether the timer callback is running, calling
\* which branch of it, texts, distances and packages hold the edge or
\* package texts it has yet to read and what it has built from those read,
\* timer which algorithm the pending
\* timer was started for, interval whether the interval of the effect is
\* set, toasts the toasts shown so far, and cleared whether handleReset has
\* run since the last handleCalculate.
DashFrame(inputs) ==
    [pc |-> "idle",
     selectedAlgorithm |-> "multistage",
     inputs |-> inputs,
     isCalculating |-> FALSE,
     result |-> NoResult,
     showAnimation |-> FALSE,
     animationProgress |-> Whole(0),
     currentStep |-> 0,
     timer |-> "none",
     calling |-> "none",
     texts |-> <<>>,
     distances |-> EmptyArr,
     packages |-> EmptyArr,
     interval |-> FALSE,
     toasts |-> <<>>,
     cleared |-> FALSE]

(* The texts of the input fields the model fills the dashboard with *)

\* "0-1:1, 0-2:2, 1-2:1": every pair of three locations
TriangleDistances ==
    <<"0", "-", "1", ":", "1", ",", " ", "0", "-", "2", ":", "2", ",", " ",
      "1", "-", "2", ":", "1">>

\* "0-1:1, 1-1:2": an edge from a location to itself
SelfEdgeDistances ==
    <<"0", "-", "1", ":", "1", ",", " ", "1", "-", "1", ":", "2">>

\* "0-5:1": an endpoint past every location count here
BeyondDistances ==
    <<"0", "-", "5", ":", "1">>

\* "0-1:1": location 2 of three is on no edge
SparseDistances ==
    <<"0", "-", "1", ":", "1">>

\* "1-0:2, 2-1:1,0-1:1, 0-2:2": a pair named twice, in both orders
ReorderedDistances ==
    <<"1", "-", "0", ":", "2", ",", " ", "2", "-", "1", ":", "1", ",", "0",
      "-", "1", ":", "1", ",", " ", "0", "-", "2", ":", "2">>

\* "1:3:a, 4:2:b": the second package does not fit whole in a truck of capacity 3
TwoPackages ==
    <<"1", ":", "3", ":", "a", ",", " ", "4", ":", "2", ":", "b">>

\* "2:3:a"
OnePackage ==
    <<"2", ":", "3", ":", "a">>

\* "1:3": a text of two parts
TwoPartPackage ==
    <<"1", ":", "3">>

\* "x:1:a": a weight that is no number
UnreadablePackage ==
    <<"x", ":", "1", ":", "a">>

\* "  ": nothing but blanks
BlankText ==
    <<" ", " ">>

\* Three stages of two nodes, three locations, a truck of capacity 3.
AcceptedInputs ==
    [stages |-> <<"3">>, nodesPerStage |-> <<"2">>, edgeCosts |-> PlaceholderEdges,
     numLocations |-> <<"3">>, distanceMatrix |-> TriangleDistances,
     capacity |-> <<"3">>, packageDetails |-> TwoPackages]

\* One stage of two nodes, an edge from a location to itself, a truck of
\* capacity 0.
UncheckedInputs ==
    [stages |-> <<"1">>, nodesPerStage |-> <<"2">>, edgeCosts |-> PlaceholderEdges,
     numLocations |-> <<"2">>, distanceMatrix |-> SelfEdgeDistances,
     capacity |-> <<"0">>, packageDetails |-> OnePackage]

\* No edge costs, an endpoint that is no location, a package of two parts.
RejectedInputs ==
    [stages |-> <<"3">>, nodesPerStage |-> <<"2">>, edgeCosts |-> BlankText,
     numLocations |-> <<"2">>, distanceMatrix |-> BeyondDistances,
     capacity |-> <<"3">>, packageDetails |-> TwoPartPackage]

\* One stage of one node (a single vertex), a location on no edge, a weight
\* that is no number.
SmallInputs ==
    [stages |-> <<"1">>, nodesPerStage |-> <<"1">>, edgeCosts |-> PlaceholderEdges,
     numLocations |-> <<"3">>, distanceMatrix |-> SparseDistances,
     capacity |-> <<"3">>, packageDetails |-> UnreadablePackage]

\* No stage (a negative vertex count), a pair of locations named twice, one
\* package that fits.
OtherInputs ==
    [stages |-> <<"0">>, nodesPerStage |-> <<"2">>, edgeCosts |-> DenseEdges,
     numLocations |-> <<"3">>, distanceMatrix |-> ReorderedDistances,
     capacity |-> <<"3">>, packageDetails |-> OnePackage]

DashInputs ==
    {AcceptedInputs, UncheckedInputs, RejectedInputs, SmallInputs, OtherInputs}

Algorithms == {"multistage", "tsp", "knapsack"}

\* The component in the runs that do not mount it.
DashIdle == [DashFrame(AcceptedInputs) EXCEPT !.pc = "unmounted"]

-----------------------------------------------------------------------------
(* Specification *)

InitMsg ==
    /\ op = "msg"
    /\ \/ \E n \in 2..MaxN : \E M \in SquareMatrices(n) : \E s \in Shapes(n) :
             sg = SgFrame(Truncate(M, s[1], s[2]), n)
       \/ sg = SgFrame(ExampleCostMatrix, ALen(ExampleCostMatrix))
    /\ nn = NnIdle
    /\ fk = FkIdle
    /\ ms = MsIdle
    /\ ui = DashIdle

InitMse ==
    /\ op = "mse"
    /\ \E numStages \in StageCounts : \E nodesPerStage \in NodeCounts :
       \E edgeCostsString \in EdgeCostsStrings :
          ms = MseFrame(numStages, nodesPerStage, edgeCostsString)
    /\ sg = SgIdle
    /\ nn = NnIdle
    /\ fk = FkIdle
    /\ ui = DashIdle

InitTsp ==
    /\ op = "tsp"
    /\ \/ \E n \in 1..MaxCities : \E D \in DistanceMatrices(n) : nn = NnFrame(D, 0)
       \/ nn = NnFrame(ExampleDistances, 0)
    /\ sg = SgIdle
    /\ fk = FkIdle
    /\ ms = MsIdle
    /\ ui = DashIdle

InitKnap ==
    /\ op = "knap"
    /\ \/ \E boxes \in BoxArrays : \E approach \in Approaches :
          \E truckCapacity \in Capacities :
             fk = FkFrame(boxes, approach, truckCapacity)
       \/ \E approach \in Approaches :
             fk = FkFrame(ExampleBoxes, approach, ExampleCapacity)
    /\ sg = SgIdle
    /\ nn = NnIdle
    /\ ms = MsIdle
    /\ ui = DashIdle

InitDash ==
    /\ op = "dash"
    /\ \E inputs \in DashInputs : ui = DashFrame(inputs)
    /\ sg = SgIdle
    /\ nn = NnIdle
    /\ fk = FkIdle
    /\ ms = MsIdle

Init == InitMsg \/ InitMse \/ InitTsp \/ InitKnap \/ InitDash

\* The runs in which multiStageGraphWithEdges is called: directly, or by the
\* timer callback of the dashboard.
MseOps == {"mse", "dash"}

\* The runs in which backwardCost is called: directly, or by
\* multiStageGraphWithEdges.
StageOps == {"msg"} \cup MseOps

\* The runs in which nearestNeighbor and fractionalKnapsack are called:
\* directly, or by the timer callback of the dashboard.
TspOps == {"tsp", "dash"}
KnapOps == {"knap", "dash"}

MsgEnter ==
    /\ op \in StageOps /\ sg.pc = "call"
    /\ sg' = BackwardCostEnter(sg)
    /\ UNCHANGED <<op, nn, fk, ms, ui>>

MsgBackward ==
    /\ op \in StageOps /\ sg.pc = "bcost" /\ sg.j >= 0
    /\ sg' = BackwardCostIter(sg)
    /\ UNCHANGED <<op, nn, fk, ms, ui>>

MsgPathInit ==
    /\ op \in StageOps /\ sg.pc = "bcost" /\ sg.j < 0
    /\ sg' = PathInit(sg)
    /\ UNCHANGED <<op, nn, fk, ms, ui>>

MsgPathStep ==
    /\ op \in StageOps /\ sg.pc = "path"
    /\ sg.index <= sg.n + MaxOverrun
    /\ sg' = PathIter(sg)
    /\ UNCHANGED <<op, nn, fk, ms, ui>>

MsgReturn ==
    /\ op \in StageOps /\ sg.pc = "return"
    /\ sg' = BackwardCostReturn(sg)
    /\ UNCHANGED <<op, nn, fk, ms, ui>>

MseStart ==
    /\ op \in MseOps /\ ms.pc = "call"
    /\ ms' = MseEnter(ms)
    /\ UNCHANGED <<op, sg, nn, fk, ui>>

MseEdge ==
    /\ op \in MseOps /\ ms.pc = "parse" /\ ms.edges # <<>>
    /\ ms' = MseParseEdge(ms)
    /\ UNCHANGED <<op, sg, nn, fk, ui>>

MseSolve ==
    /\ op \in MseOps /\ ms.pc = "parse" /\ ms.edges = <<>>
    /\ ms' = MseBuildStages(ms)
    /\ sg' = SgFrame(ms.costMatrix, ms.n)
    /\ UNCHANGED <<op, nn, fk, ui>>

MseEnd ==
    /\ op \in MseOps /\ ms.pc = "solve" /\ sg.pc \in {"done", "threw"}
    /\ ms' = MseReturn(ms, sg)
    /\ UNCHANGED <<op, sg, nn, fk, ui>>

TspEnter ==
    /\ op \in TspOps /\ nn.pc = "call"
    /\ nn' = NearestNeighborEnter(nn)
    /\ UNCHANGED <<op, sg, fk, ms, ui>>

TspVisit ==
    /\ op \in TspOps /\ nn.pc = "visit" /\ nn.step < nn.n - 1
    /\ nn' = NearestNeighborIter(nn)
    /\ UNCHANGED <<op, sg, fk, ms, ui>>

TspClose ==
    /\ op \in TspOps /\ nn.pc = "visit" /\ nn.step >= nn.n - 1
    /\ nn' = NearestNeighborClose(nn)
    /\ UNCHANGED <<op, sg, fk, ms, ui>>

KnapEnter ==
    /\ op \in KnapOps /\ fk.pc = "call"
    /\ fk' = KnapsackEnter(fk)
    /\ UNCHANGED <<op, sg, nn, ms, ui>>

KnapSelect ==
    /\ op \in KnapOps /\ fk.pc = "select" /\ KnapsackLoops(fk)
    /\ fk' = KnapsackIter(fk)
    /\ UNCHANGED <<op, sg, nn, ms, ui>>

KnapReturn ==
    /\ op \in KnapOps /\ fk.pc = "select" /\ ~KnapsackLoops(fk)
    /\ fk' = KnapsackReturn(fk)
    /\ UNCHANGED <<op, sg, nn, ms, ui>>

\* A press of the Calculate button, which is disabled while isCalculating
\* (lines 775-777).  No handler runs while the timer callback does.
DashCalculate ==
    /\ op = "dash" /\ ui.pc = "idle"
    /\ ~ui.isCalculating
    /\ Len(ui.toasts) < MaxPresses
    /\ ui' = HandleCalculate(ui)
    /\ UNCHANGED <<op, sg, nn, fk, ms>>

\* A press of the Reset button (line 793).
DashReset ==
    /\ op = "dash" /\ ui.pc = "idle"
    /\ ui' = HandleReset(ui)
    /\ UNCHANGED <<op, sg, nn, fk, ms>>

\* A press of an algorithm button.
DashSelect ==
    /\ op = "dash" /\ ui.pc = "idle"
    /\ \E id \in Algorithms : ui' = SelectAlgorithm(ui, id)
    /\ UNCHANGED <<op, sg, nn, fk, ms>>

\* The 800 ms are over and the callback of line 403 starts, for the
\* algorithm it was started for.
DashTimerFires ==
    /\ op = "dash" /\ ui.pc = "idle" /\ ui.timer # "none"
    /\ LET u == [ui EXCEPT !.timer = "none"]
       IN  \/ /\ ui.timer = "multistage"
              /\ ui' = MultistageBranch(u)
              /\ ms' = IF MultistageBranch(u).pc = "callback"
                       THEN MultistageCall(u) ELSE ms
           \/ /\ ui.timer = "tsp"
              /\ ui' = TspBranch(u)
              /\ ms' = ms
           \/ /\ ui.timer = "knapsack"
              /\ ui' = KnapsackBranch(u)
              /\ ms' = ms
    /\ UNCHANGED <<op, sg, nn, fk>>

\* The callback reads the next edge text of the TSP branch.
DashTspEdge ==
    /\ op = "dash" /\ ui.pc = "callback" /\ ui.calling = "tsp"
    /\ nn.pc = "idle" /\ ui.texts # <<>>
    /\ ui' = TspEdge(ui)
    /\ UNCHANGED <<op, sg, nn, fk, ms>>

\* The callback has read every edge text and calls tsp.
DashTspCall ==
    /\ op = "dash" /\ ui.pc = "callback" /\ ui.calling = "tsp"
    /\ nn.pc = "idle" /\ ui.texts = <<>>
    /\ nn' = TspCall(ui)
    /\ UNCHANGED <<op, sg, fk, ms, ui>>

\* The callback reads the next package text of the knapsack branch.
DashPackage ==
    /\ op = "dash" /\ ui.pc = "callback" /\ ui.calling = "knapsack"
    /\ fk.pc = "idle" /\ ui.texts # <<>>
    /\ ui' = KnapsackPackage(ui)
    /\ UNCHANGED <<op, sg, nn, fk, ms>>

\* The callback has read every package text and calls fractionalKnapsack.
DashKnapsackCall ==
    /\ op = "dash" /\ ui.pc = "callback" /\ ui.calling = "knapsack"
    /\ fk.pc = "idle" /\ ui.texts = <<>>
    /\ fk' = KnapsackCall(ui)
    /\ UNCHANGED <<op, sg, nn, ms, ui>>

\* The algorithm called has returned or thrown, and the callback ends.
DashCallbackEnd ==
    /\ op = "dash" /\ ui.pc = "callback"
    /\ \/ /\ ui.calling = "multistage" /\ ms.pc \in {"done", "threw"}
          /\ ui' = MultistageEnd(ui, ms)
       \/ /\ ui.calling = "tsp" /\ nn.pc = "done"
          /\ ui' = TspEnd(ui, nn)
       \/ /\ ui.calling = "knapsack" /\ fk.pc = "done"
          /\ ui' = KnapsackEnd(ui, fk)
    /\ ms' = MsIdle
    /\ sg' = SgIdle
    /\ nn' = NnIdle
    /\ fk' = FkIdle
    /\ UNCHANGED op

\* The interval of the animation effect fires.
DashTick ==
    /\ op = "dash" /\ ui.pc = "idle" /\ ui.interval
    /\ ui' = AnimationTick(ui)
    /\ UNCHANGED <<op, sg, nn, fk, ms>>

Next ==
    \/ MsgEnter
    \/ MsgBackward
    \/ MsgPathInit
    \/ MsgPathStep
    \/ MsgReturn
    \/ MseStart
    \/ MseEdge
    \/ MseSolve
    \/ MseEnd
    \/ TspEnter
    \/ TspVisit
    \/ TspClose
    \/ KnapEnter
    \/ KnapSelect
    \/ KnapReturn
    \/ DashCalculate
    \/ DashReset
    \/ DashSelect
    \/ DashTimerFires
    \/ DashTspEdge
    \/ DashTspCall
    \/ DashPackage
    \/ DashKnapsackCall
    \/ DashCallbackEnd
    \/ DashTick

Spec == Init /\ [][Next]_vars

-----------------------------------------------------------------------------
(* Stage graph: what the claims compare the code with *)

SetMin(S) == CHOOSE x \in S : \A y \in S : x <= y

\* The cost of the path 0 -> (the vertices of S in ascending order) -> n-1
\* from vertex v on; INF when one of its edges is no edge.
RECURSIVE CostAlong(_, _, _, _)
CostAlong(G, n, S, v) ==
    IF v = n - 1 THEN 0
    ELSE LET later == {x \in S : x > v}
             nxt == IF later = {} THEN n - 1 ELSE SetMin(later)
         IN  IF G[v][nxt] = INF THEN INF
             ELSE Plus(G[v][nxt], CostAlong(G, n, S, nxt))

\* Every ascending path from 0 to n-1 is given by the set of its inner vertices.
InnerSets(n) == SUBSET (1..(n - 2))

NoFinitePath(G, n) == \A S \in InnerSets(n) : CostAlong(G, n, S, 0) = INF

MinPathCost(G, n) == SetMin({CostAlong(G, n, S, 0) : S \in InnerSets(n)})

StartsAt(path, v) == ALen(path) > 0 /\ path[0] = v
EndsAt(path, v) == ALen(path) > 0 /\ ALast(path) = v

MsgDone == op = "msg" /\ sg.pc = "done" /\ WellShaped(sg.G, sg.n)

\* C1: for a well-shaped cost matrix, minimumCost is the minimum cost over
\* all paths from 0 to n-1 along finite edges (i, j) with j > i, and it is
\* infinite exactly when there is no such path.
C1_MinimumCostIsOptimal ==
    MsgDone =>
        /\ sg.ret.minimumCost = MinPathCost(sg.G, sg.n)
        /\ (sg.ret.minimumCost = INF) <=> NoFinitePath(sg.G, sg.n)

\* The cheapest path goes through vertex 1 and beats a finite direct edge.
C1_Witness ==
    /\ MsgDone /\ sg.n = 3
    /\ sg.G[0][2] # INF
    /\ sg.ret.minimumCost < sg.G[0][2]
    /\ sg.ret.minimumCost = Plus(sg.G[0][1], sg.G[1][2])

\* C5: for a well-shaped matrix backwardCost does not throw; when the sink is
\* unreachable it returns an infinite minimumCost and a path that does not
\* end at n-1; when minimumCost is finite the path starts at 0 and ends at
\* n-1.
C5_UnreachableIsAResult ==
    (op = "msg" /\ WellShaped(sg.G, sg.n)) =>
        /\ sg.pc # "threw"
        /\ sg.pc = "done" =>
              /\ NoFinitePath(sg.G, sg.n) =>
                    /\ sg.ret.minimumCost = INF
                    /\ ~EndsAt(sg.ret.path, sg.n - 1)
              /\ sg.ret.minimumCost # INF =>
                    /\ StartsAt(sg.ret.path, 0)
                    /\ EndsAt(sg.ret.path, sg.n - 1)

\* The sink is unreachable although vertex 0 has a finite edge.
C5_Witness ==
    /\ MsgDone /\ sg.n = 3
    /\ sg.G[0][1] # INF
    /\ NoFinitePath(sg.G, sg.n)
    /\ sg.ret.minimumCost = INF
    /\ sg.ret.path = AFill(1, 0)

\* C7 (as claimed): a call with a matrix whose rows or row lengths do not
\* match n ends in a ShapeError raised at entry, before any backward cost is
\* computed.
C7_ShapeErrorAtEntry ==
    (op = "msg" /\ ~WellShaped(sg.G, sg.n) /\ sg.pc \in {"done", "threw"}) =>
        /\ sg.pc = "threw"
        /\ sg.error = "ShapeError"
        /\ sg.bcost = EmptyArr

\* The value of successor r at vertex j in the returned backward-cost table.
Through(j, r) == Plus(sg.G[j][r], sg.ret.bcostArray[r])

FiniteSuccessors(j) ==
    {r \in (j + 1)..(sg.n - 1) : sg.G[j][r] # INF /\ Through(j, r) # INF}

\* C10: decision[j] is the lowest successor r > j among those with the
\* minimal value of G[j][r] + backwardCost[r]; with no successor of finite
\* value, backwardCost[j] is infinite and decision[j] is -1.
C10_LowestIndexWinsTies ==
    MsgDone =>
        \A j \in 0..(sg.n - 2) :
            IF FiniteSuccessors(j) = {}
            THEN /\ sg.ret.bcostArray[j] = INF
                 /\ sg.ret.decisionArray[j] = 0 - 1
            ELSE LET best == SetMin({Through(j, r) : r \in FiniteSuccessors(j)})
                 IN  sg.ret.decisionArray[j] =
                        SetMin({r \in FiniteSuccessors(j) : Through(j, r) = best})

\* Vertex 0 has two successors of the same minimal finite value.
C10_Witness ==
    /\ MsgDone /\ sg.n = 3
    /\ FiniteSuccessors(0) = {1, 2}
    /\ Through(0, 1) = Through(0, 2)
    /\ sg.ret.decisionArray[0] = 1

\* C14 (as claimed): every entry j in 0..n-1 of the decision table is the
\* none sentinel -1 or a successor r > j with
\* backwardCost[j] = G[j][r] + backwardCost[r].
C14_DecisionAchievesMinimum ==
    MsgDone =>
        \A j \in 0..(sg.n - 1) :
            LET r == sg.ret.decisionArray[j]
            IN  \/ r = 0 - 1
                \/ /\ r \in (j + 1)..(sg.n - 1)
                   /\ sg.G[j][r] # INF
                   /\ sg.ret.bcostArray[j] = Through(j, r)

IsExampleGraph == op = "msg" /\ sg.G = ExampleCostMatrix /\ sg.n = 4

\* C15: for n = 4 with the edges 0->1 of cost 2, 0->2 of cost 3, 1->3 of
\* cost 4 and 2->3 of cost 5 and no other edge, backwardCost returns
\* minimumCost 6 and the path [0, 1, 3].
C15_ExampleStageGraph ==
    (IsExampleGraph /\ sg.pc \in {"done", "threw"}) =>
        /\ sg.pc = "done"
        /\ sg.ret.minimumCost = 6
        /\ sg.ret.path = (0 :> 0 @@ 1 :> 1 @@ 2 :> 3)

\* The call on the example has returned; its tables are [6, 4, 5, 0] and
\* [1, 3, 3, 0].
C15_Witness ==
    /\ IsExampleGraph /\ sg.pc = "done"
    /\ sg.ret.bcostArray = (0 :> 6 @@ 1 :> 4 @@ 2 :> 5 @@ 3 :> 0)
    /\ sg.ret.decisionArray = (0 :> 1 @@ 1 :> 3 @@ 2 :> 3 @@ 3 :> 0)
    /\ ALast(sg.ret.path) = 3

\* The decision-following steps the path walk has taken.
PathSteps == sg.index - 1

\* C20 (as claimed): every call of backwardCost, made directly or by
\* multiStageGraphWithEdges on any integer stage and node counts, ends in a
\* result or an error, and the path walk takes at most n - 1
\* decision-following steps (none when there is at most one vertex).
C20_StageGraphCallsComplete ==
    (op \in StageOps /\ sg.pc \in {"path", "return", "done"}) =>
        /\ PathSteps <= (IF sg.n >= 1 THEN sg.n - 1 ELSE 0)
        /\ sg.current # Undefined

\* G with every entry on and below the diagonal taken from L.
WithLower(G, L) ==
    [i \in DOMAIN G |-> [k \in DOMAIN G[i] |-> IF k > i THEN G[i][k] ELSE L[i][k]]]

\* Contents for the entries on and below the diagonal: no edge everywhere, a
\* cost of 0 or of 1 everywhere, and a cost that differs from entry to entry.
LowerContents(n) ==
    {[i \in 0..(n - 1) |-> [k \in 0..(n - 1) |-> v]] : v \in {INF, 0, 1}}
        \cup {[i \in 0..(n - 1) |-> [k \in 0..(n - 1) |-> i - k]]}

\* C21: a matrix that agrees with G on every entry (i, j) with j > i, and
\* holds anything on and below the diagonal, yields the same minimumCost,
\* path, backward-cost table and decision table as G.
C21_OnlyUpperEntriesCount ==
    MsgDone =>
        \A L \in LowerContents(sg.n) :
            LET other == backwardCost(WithLower(sg.G, L), sg.n)
            IN  /\ other.pc = "done"
                /\ other.ret = sg.ret

\* The entries on and below the diagonal are edges of cost 0, cheaper than
\* every path above the diagonal, and the sink is reached at a cost above 0.
C21_Witness ==
    /\ MsgDone /\ sg.n = 3
    /\ sg.G[1][0] = 0 /\ sg.G[2][0] = 0 /\ sg.G[0][0] = 0
    /\ sg.ret.minimumCost # INF /\ sg.ret.minimumCost > 0
    /\ sg.ret.path = (0 :> 0 @@ 1 :> 1 @@ 2 :> 2)

\* The minimum cost of a path from j to n-1 along finite edges of ascending
\* index, INF when there is none: every such path is given by the set of
\* its inner vertices.
MinCostFrom(G, n, j) ==
    SetMin({CostAlong(G, n, S, j) : S \in SUBSET ((j + 1)..(n - 2))})

\* C22: in the table returned, entry n-1 is 0 and every entry j < n-1 is the
\* minimum cost of a path from j to n-1 over finite ascending-index edges,
\* INF if there is none; while the table is built downwards from n-2, every
\* entry above the one to be written next already has its final value and
\* every other entry below n-1 is still INF.
C22_BackwardCostTable ==
    (op = "msg" /\ WellShaped(sg.G, sg.n)) =>
        /\ sg.pc = "bcost" =>
              \A k \in 0..(sg.n - 1) :
                  sg.bcost[k] = IF k > sg.j THEN MinCostFrom(sg.G, sg.n, k) ELSE INF
        /\ sg.pc = "done" =>
              /\ sg.ret.bcostArray[sg.n - 1] = 0
              /\ \A k \in 0..(sg.n - 2) :
                    sg.ret.bcostArray[k] = MinCostFrom(sg.G, sg.n, k)

\* In the table returned vertex 1 cannot reach the sink and vertex 0 can,
\* by its direct edge.
C22_Witness ==
    /\ MsgDone /\ sg.n = 3
    /\ sg.ret.bcostArray[1] = INF
    /\ sg.G[0][1] # INF
    /\ sg.ret.bcostArray[0] = sg.G[0][2]
    /\ sg.ret.bcostArray[0] # INF

\* The sum of G[path[i]][path[i+1]] over the consecutive pairs from i on.
RECURSIVE PathCost(_, _, _)
PathCost(G, path, i) ==
    IF i >= ALen(path) - 1 THEN 0
    ELSE Plus(G[path[i]][path[i + 1]], PathCost(G, path, i + 1))

\* C23: the path returned is strictly increasing in vertex index, each of
\* its consecutive pairs is a finite edge of the matrix, and when it ends at
\* n-1 the sum of its edge costs is minimumCost.
C23_PathFollowsFiniteEdges ==
    MsgDone =>
        LET path == sg.ret.path
        IN  /\ StartsAt(path, 0)
            /\ \A i \in 0..(ALen(path) - 2) :
                  /\ path[i] < path[i + 1]
                  /\ path[i + 1] \in 0..(sg.n - 1)
                  /\ sg.G[path[i]][path[i + 1]] # INF
            /\ EndsAt(path, sg.n - 1) =>
                  PathCost(sg.G, path, 0) = sg.ret.minimumCost

\* The path returned has two edges of cost above 0 and ends at the sink.
C23_Witness ==
    /\ MsgDone /\ sg.n = 3
    /\ sg.ret.path = (0 :> 0 @@ 1 :> 1 @@ 2 :> 2)
    /\ sg.G[0][1] > 0 /\ sg.G[1][2] > 0
    /\ sg.ret.minimumCost = sg.G[0][1] + sg.G[1][2]

\* The edge a piece of the text names, as <<from, to, cost>>: three parts
\* around "-" and ":" that each start with a number; <<NaN, NaN, NaN>> for a
\* piece that names none.
EdgeNamedBy(piece) ==
    LET parts == Split(Trim(piece), {"-", ":"})
    IN  IF Len(parts) = 3 /\ \A i \in 1..3 : ParseInt(parts[i]) # NaN
        THEN <<ParseInt(parts[1]), ParseInt(parts[2]), ParseInt(parts[3])>>
        ELSE <<NaN, NaN, NaN>>

\* The edges the text names, those with an endpoint past the matrix included.
NamedEdges(text) ==
    IF Trim(text) = <<>> THEN {}
    ELSE LET pieces == Split(text, {","})
         IN  {EdgeNamedBy(pieces[i]) : i \in 1..Len(pieces)} \ {<<NaN, NaN, NaN>>}

\* The stage st and position i at which stageVertices holds vertex v.
PlacesOf(sv, v) ==
    {pl \in UNION {{<<st, i>> : i \in DOMAIN sv[st]} : st \in DOMAIN sv} :
        sv[pl[1]][pl[2]] = v}

MseDone == op = "mse" /\ ms.pc = "done" /\ ms.numStages >= 2 /\ ms.nodesPerStage >= 1

\* C25: with s >= 2 stages and k >= 1 nodes per stage the call builds
\* n = 2 + (s - 2) * k vertices and an n x n matrix; stageVertices has the
\* stages 0 .. s-1, stage 0 is [0], stage s-1 is [n-1], every stage between
\* holds k consecutive indices, and every vertex 0 .. n-1 is at exactly one
\* place; an entry of the matrix holds a cost only if the text names that
\* edge with that cost, an edge named with an endpoint >= n leaves the
\* matrix as it is, and every other entry is INF.
C25_GraphBuiltFromText ==
    MseDone =>
        LET s == ms.numStages
            k == ms.nodesPerStage
            n == ms.ret.totalVertices
            sv == ms.ret.stageVertices
            M == ms.ret.costMatrix
            named == NamedEdges(ms.edgeCostsString)
        IN  /\ n = 2 + (s - 2) * k
            /\ WellShaped(M, n)
            /\ DOMAIN sv = 0..(s - 1)
            /\ sv[0] = AFill(1, 0)
            /\ sv[s - 1] = AFill(1, n - 1)
            /\ \A st \in 1..(s - 2) :
                  /\ ALen(sv[st]) = k
                  /\ \A i \in 1..(k - 1) : sv[st][i] = sv[st][i - 1] + 1
            /\ \A v \in 0..(n - 1) : Cardinality(PlacesOf(sv, v)) = 1
            /\ \A st \in DOMAIN sv : \A i \in DOMAIN sv[st] : sv[st][i] \in 0..(n - 1)
            /\ \A i \in 0..(n - 1) : \A j \in 0..(n - 1) :
                  IF \E e \in named : e[1] = i /\ e[2] = j
                  THEN \E e \in named : e[1] = i /\ e[2] = j /\ M[i][j] = e[3]
                  ELSE M[i][j] = INF

\* Four stages of one node: the text names the edge 0-5, past the four
\* vertices, and the edge 2-1 below the diagonal, which is stored.
C25_Witness ==
    /\ MseDone /\ ms.numStages = 4 /\ ms.nodesPerStage = 1
    /\ ms.edgeCostsString = DenseEdges
    /\ <<0, 5, 1>> \in NamedEdges(ms.edgeCostsString)
    /\ ms.ret.totalVertices = 4
    /\ ms.ret.costMatrix[2][1] = 1
    /\ ms.ret.costMatrix[0][1] = 1
    /\ ms.ret.stageVertices[2] = AFill(1, 2)

-----------------------------------------------------------------------------
(* Tour: what the claims compare the code with *)

TspDone == op = "tsp" /\ nn.pc = "done"

\* The sum of distances[tour[i]][tour[i+1]] over the consecutive pairs from
\* position i on.
RECURSIVE TourSum(_, _, _)
TourSum(distances, tour, i) ==
    IF i >= ALen(tour) - 1 THEN 0
    ELSE Plus(distances[tour[i]][tour[i + 1]], TourSum(distances, tour, i + 1))

\* n+1 entries, vertex 0 first and last, every other vertex exactly once in
\* between.
ClosedTourOfAll(tour, n) ==
    /\ ALen(tour) = n + 1
    /\ tour[0] = 0
    /\ tour[n] = 0
    /\ \A v \in 1..(n - 1) :
          Cardinality({k \in 1..(n - 1) : tour[k] = v}) = 1

AllFinite(distances) ==
    \A i \in DOMAIN distances : \A k \in DOMAIN distances :
        i # k => distances[i][k] # INF

\* C2 (as claimed): for every n x n distance matrix the tour has n+1 entries,
\* starts and ends at 0, holds every other vertex exactly once in between,
\* and totalDistance is the sum of the distances of its consecutive pairs.
C2_TourVisitsAll ==
    TspDone =>
        /\ ClosedTourOfAll(nn.ret.tour, nn.n)
        /\ nn.ret.totalDistance = TourSum(nn.distances, nn.ret.tour, 0)

\* C2 (amended): the tour is a closed tour of all n vertices whenever every
\* distance between two different vertices is finite; for every matrix
\* totalDistance is the sum of the distances of the consecutive pairs of the
\* tour that is returned.
C2_TourVisitsAllWhenFinite ==
    TspDone =>
        /\ AllFinite(nn.distances) => ClosedTourOfAll(nn.ret.tour, nn.n)
        /\ nn.ret.totalDistance = TourSum(nn.distances, nn.ret.tour, 0)

\* Three cities at finite distances, the farther-indexed one is nearer.
C2_Witness ==
    /\ TspDone /\ nn.n = 3
    /\ AllFinite(nn.distances)
    /\ nn.distances[0][2] < nn.distances[0][1]
    /\ nn.ret.tour = (0 :> 0 @@ 1 :> 2 @@ 2 :> 1 @@ 3 :> 0)
    /\ nn.ret.totalDistance # INF

Unvisited(f) == {c \in 0..(f.n - 1) : ~f.visited[c]}

\* C11: a step of the loop appends at most one vertex; the vertex appended
\* was unvisited, no unvisited vertex was nearer to the current vertex, and
\* no unvisited vertex of a lower index was as near; no step of the call
\* changes an entry the tour already holds.
C11_NearestLowestIndexIsAppended ==
    [][op = "tsp" =>
          /\ \A k \in DOMAIN nn.tour :
                k \in DOMAIN nn'.tour /\ nn'.tour[k] = nn.tour[k]
          /\ (nn.pc = "visit" /\ nn'.pc = "visit") =>
                /\ ALen(nn'.tour) \in {ALen(nn.tour), ALen(nn.tour) + 1}
                /\ ALen(nn'.tour) = ALen(nn.tour) + 1 =>
                      LET c == ALast(nn'.tour)
                          row == nn.distances[nn.currentCity]
                      IN  /\ c \in Unvisited(nn)
                          /\ nn'.currentCity = c
                          /\ \A u \in Unvisited(nn) :
                                /\ row[c] <= row[u]
                                /\ row[u] = row[c] => c <= u]_vars

\* The first step had vertices 1 and 2 at the same finite distance from
\* vertex 0 and appended vertex 1.
C11_Witness ==
    /\ op = "tsp" /\ nn.pc = "visit" /\ nn.n = 3 /\ nn.step = 1
    /\ nn.distances[0][1] = nn.distances[0][2]
    /\ nn.distances[0][1] # INF
    /\ nn.tour = (0 :> 0 @@ 1 :> 1)

\* The frame of the call of nn's arguments after k steps.
RECURSIVE NnAfter(_, _)
NnAfter(f, k) == IF k = 0 THEN f ELSE NnAfter(NearestNeighborStep(f), k - 1)

\* The iteration `step` of the loop, replayed, found every unvisited vertex
\* at infinite distance from the current vertex.
FoundNoNeighbor(step) ==
    LET g == NnAfter(NnFrame(nn.distances, nn.startCity), step + 1)
    IN  \A c \in Unvisited(g) : g.distances[g.currentCity][c] = INF

\* C12: allVisited is true exactly when every vertex 0..n-1 is marked
\* visited; when it is false, some iteration of the loop found no unvisited
\* vertex at finite distance; the call ends in a returned result, with a
\* closed tour and the count of the vertices visited, and in no error.
C12_AllVisitedIsAFlag ==
    op = "tsp" =>
        /\ nn.pc \in {"call", "visit", "done"}
        /\ nn.pc = "done" =>
              /\ nn.ret.allVisited <=> \A c \in 0..(nn.n - 1) : nn.visited[c]
              /\ ~nn.ret.allVisited =>
                    /\ \E step \in 0..(nn.n - 2) : FoundNoNeighbor(step)
                    /\ nn.ret.numCitiesVisited < nn.n
                    /\ StartsAt(nn.ret.tour, nn.startCity)
                    /\ EndsAt(nn.ret.tour, nn.startCity)

\* Vertex 1 was visited and vertex 2 is at no finite distance from it: the
\* call returned with allVisited false.
C12_Witness ==
    /\ TspDone /\ nn.n = 3
    /\ ~nn.ret.allVisited
    /\ nn.ret.numCitiesVisited = 2
    /\ nn.ret.tour = (0 :> 0 @@ 1 :> 1 @@ 2 :> 0)
    /\ FoundNoNeighbor(1) /\ ~FoundNoNeighbor(0)

IsExampleTour == op = "tsp" /\ nn.distances = ExampleDistances /\ nn.startCity = 0

\* C16: for the three cities with d(0,1) = 10, d(0,2) = 15, d(1,2) = 12 and
\* start 0, nearestNeighbor returns the tour [0, 1, 2, 0] and the total
\* distance 37.
C16_ExampleTour ==
    (IsExampleTour /\ nn.pc = "done") =>
        /\ nn.ret.tour = (0 :> 0 @@ 1 :> 1 @@ 2 :> 2 @@ 3 :> 0)
        /\ nn.ret.totalDistance = 37

\* The call on the example has returned after visiting all three cities,
\* the last of them city 2.
C16_Witness ==
    /\ IsExampleTour /\ nn.pc = "done"
    /\ nn.ret.allVisited /\ nn.ret.numCitiesVisited = 3
    /\ nn.currentCity = 2
    /\ nn.ret.totalDistance = 10 + 12 + 15

\* The frame at the start of iteration `step` of the loop, replayed.
AtStep(step) == NnAfter(NnFrame(nn.distances, nn.startCity), step + 1)

\* C27: the tour returned has numCitiesVisited + 1 entries and no vertex
\* other than the start occurs in it more than once; once an iteration of the
\* loop finds no eligible neighbour, every later iteration finds none either
\* and starts from the same current vertex, with the same tour.
C27_TourLengthAndStuckSteps ==
    TspDone =>
        /\ ALen(nn.ret.tour) = nn.ret.numCitiesVisited + 1
        /\ \A a \in DOMAIN nn.ret.tour : \A b \in DOMAIN nn.ret.tour :
              (a # b /\ nn.ret.tour[a] = nn.ret.tour[b]) =>
                  nn.ret.tour[a] = nn.startCity
        /\ \A s \in 0..(nn.n - 2) : \A t \in s..(nn.n - 2) :
              FoundNoNeighbor(s) =>
                  /\ FoundNoNeighbor(t)
                  /\ AtStep(t).currentCity = AtStep(s).currentCity
                  /\ AtStep(t).tour = AtStep(s).tour
                  /\ nn.currentCity = AtStep(s).currentCity

\* City 0 has no neighbour at finite distance although cities 1 and 2 are
\* at finite distance from each other: both iterations found none.
C27_Witness ==
    /\ TspDone /\ nn.n = 3
    /\ nn.distances[1][2] # INF
    /\ FoundNoNeighbor(0) /\ FoundNoNeighbor(1)
    /\ nn.ret.numCitiesVisited = 1
    /\ nn.ret.tour = (0 :> 0 @@ 1 :> 0)

-----------------------------------------------------------------------------
(* Knapsack: what the claims compare the code with *)

KnapDone == op = "knap" /\ fk.pc = "done"

\* The total value a call with the same boxes and capacity returns under
\* another ordering, in hundredths.
TotalUnder(approach) ==
    fractionalKnapsack(fk.boxes, approach, fk.truckCapacity).ret.totalProfit.hundredths

PositiveWeights(boxes) == \A k \in DOMAIN boxes : boxes[k].weight > 0

RECURSIVE SumTakenWeight(_, _)
SumTakenWeight(selected, k) ==
    IF k >= ALen(selected) THEN 0
    ELSE selected[k].takenWeight + SumTakenWeight(selected, k + 1)

AllTakenWhole(f) ==
    /\ ALen(f.ret.selectedBoxes) = ALen(f.boxes)
    /\ \A k \in DOMAIN f.ret.selectedBoxes : f.ret.selectedBoxes[k].fraction = Whole(1)

\* C4: the sum of takenWeight over selectedBoxes is at most the requested
\* capacity, and equals it unless every item was taken whole.
C4_NeverExceedsCapacity ==
    KnapDone =>
        /\ SumTakenWeight(fk.ret.selectedBoxes, 0) <= fk.truckCapacity
        /\ \/ SumTakenWeight(fk.ret.selectedBoxes, 0) = fk.truckCapacity
           \/ AllTakenWhole(fk)

\* The second box is split to fill the capacity exactly.
C4_Witness ==
    /\ KnapDone
    /\ ALen(fk.ret.selectedBoxes) = 2
    /\ FLess(fk.ret.selectedBoxes[1].fraction, Whole(1))
    /\ SumTakenWeight(fk.ret.selectedBoxes, 0) = fk.truckCapacity
    /\ ~AllTakenWhole(fk)

HasNonPositiveWeight(boxes) == \E k \in DOMAIN boxes : boxes[k].weight <= 0

C9_CallerArrayUnchanged ==
    op = "knap" => fk.heap["boxes"] = fk.boxes

\* The call has returned and the sort has put the working copy in an order
\* other than the caller's.
C9_Witness ==
    /\ KnapDone
    /\ ALen(fk.boxes) = 2
    /\ Temp(fk)[0].index = 1
    /\ fk.heap["boxes"] = fk.boxes

RECURSIVE SumTakenProfit(_, _)
SumTakenProfit(selected, k) ==
    IF k >= ALen(selected) THEN Whole(0)
    ELSE FAdd(selected[k].takenProfit, SumTakenProfit(selected, k + 1))

\* Every record has a fraction in (0, 1], takenWeight = fraction x weight and
\* takenProfit = fraction x profit, and record k is box k of the sorted
\* working copy.
RecordsFollowSelection(f) ==
    /\ ALen(f.ret.selectedBoxes) <= ALen(Temp(f))
    /\ \A k \in DOMAIN f.ret.selectedBoxes :
          LET b == f.ret.selectedBoxes[k]
          IN  /\ FLess(Whole(0), b.fraction) /\ FLeq(b.fraction, Whole(1))
              /\ Whole(b.takenWeight) = FMul(b.fraction, Whole(b.weight))
              /\ b.takenProfit = FMul(b.fraction, Whole(b.profit))
              /\ b.index = Temp(f)[k].index
              /\ b.weight = Temp(f)[k].weight /\ b.profit = Temp(f)[k].profit

\* The decimal string s names exactly the fraction q.
NamesExactly(s, q) ==
    s.text = "number" /\ s.hundredths * q[2] = 100 * q[1]

\* C13 (as claimed): every record of selectedBoxes has a fraction in (0, 1],
\* takenWeight = fraction x weight and takenProfit = fraction x profit, the
\* records are in the order of the sorted working copy, and the total value
\* returned equals the sum of takenProfit over the records.
C13_TotalIsSumOfTaken ==
    KnapDone =>
        /\ RecordsFollowSelection(fk)
        /\ NamesExactly(fk.ret.totalProfit, SumTakenProfit(fk.ret.selectedBoxes, 0))

IsExampleLoad ==
    /\ op = "knap" /\ fk.boxes = ExampleBoxes
    /\ fk.approach = 3 /\ fk.truckCapacity = ExampleCapacity

\* C17: for the boxes (10, 60), (20, 100), (15, 120), capacity 25 and the
\* ratio ordering, the third box is taken whole, then the first box whole,
\* the second box is not taken, the remaining capacity is 0 and the total
\* value returned is 180.
C17_ExampleLoad ==
    (IsExampleLoad /\ fk.pc = "done") =>
        LET sel == fk.ret.selectedBoxes
        IN  /\ ALen(sel) = 2
            /\ sel[0].index = 2 /\ sel[0].fraction = Whole(1)
            /\ sel[0].takenWeight = 15 /\ sel[0].takenProfit = Whole(120)
            /\ sel[1].index = 0 /\ sel[1].fraction = Whole(1)
            /\ sel[1].takenWeight = 10 /\ sel[1].takenProfit = Whole(60)
            /\ \A k \in DOMAIN sel : sel[k].index # 1
            /\ fk.ret.remainingCapacity = 0
            /\ fk.ret.totalProfit = [text |-> "number", hundredths |-> 18000]

\* The call on the example has returned; the working copy is in the order
\* third, first, second box and the whole capacity is used.
C17_Witness ==
    /\ IsExampleLoad /\ fk.pc = "done"
    /\ Temp(fk)[0].index = 2 /\ Temp(fk)[1].index = 0 /\ Temp(fk)[2].index = 1
    /\ fk.i = 2
    /\ fk.ret.usedCapacity = 25

\* The capacity that remained when record k of selected was pushed.
RemainingBefore(f, selected, k) ==
    f.truckCapacity - SumTakenWeight(ASlice(selected, k), 0)

\* C18: a call with capacity 0 returns an empty selection and the total
\* value 0, whatever the boxes and the ordering; the remaining capacity is
\* never negative, and every record selected was pushed while the remaining
\* capacity was positive.
C18_NothingTakenWithoutCapacity ==
    (op = "knap" /\ fk.pc \in {"select", "done"}) =>
        /\ fk.capacity >= 0
        /\ \A k \in DOMAIN fk.selectedBoxes :
              RemainingBefore(fk, fk.selectedBoxes, k) > 0
        /\ (fk.pc = "done" /\ fk.truckCapacity = 0) =>
              /\ fk.ret.selectedBoxes = EmptyArr
              /\ fk.ret.totalProfit = [text |-> "number", hundredths |-> 0]
              /\ fk.ret.usedCapacity = 0
              /\ fk.ret.remainingCapacity = 0

\* A call with capacity 0 has returned with nothing selected although its
\* first box, of weight 0, fits any capacity, and its second box is heavier.
C18_Witness ==
    /\ KnapDone /\ fk.truckCapacity = 0
    /\ ALen(fk.boxes) = 2
    /\ Temp(fk)[0].weight = 0 /\ Temp(fk)[1].weight > 0
    /\ fk.i = 0
    /\ fk.ret.selectedBoxes = EmptyArr

\* t holds the records of u, each once.
IsPermutationOf(t, u) ==
    /\ DOMAIN t = DOMAIN u
    /\ {t[k].index : k \in DOMAIN t} = DOMAIN u
    /\ \A k \in DOMAIN t : t[k] = u[t[k].index]

\* t is in the order of the key of approach.
OrderedByKey(t, approach) ==
    \A a \in DOMAIN t : \A b \in DOMAIN t :
        a < b =>
            CASE approach = 1 -> t[a].weight <= t[b].weight
              [] approach = 2 -> t[a].profit >= t[b].profit
              [] approach = 3 -> FLeq(t[b].ratio, t[a].ratio)

\* The approach an approachName stands for.
NamedApproach(approachName) ==
    CASE approachName = "Weight-based" -> 1
      [] approachName = "Profit-based" -> 2
      [] approachName = "Ratio-based" -> 3

\* The order of the boxes of the call under an approach, as their indices.
OrderUnder(approach) ==
    LET t == sortBoxes(MapBoxes(fk.boxes), approach)
    IN  [k \in DOMAIN t |-> t[k].index]

\* C19: the sorted working copy holds the records of the copy, each once,
\* with weights non-decreasing under approach 1, profits non-increasing under
\* approach 2 and ratios non-increasing under approach 3; the order of the
\* example boxes under an approach is the order under no other approach; and
\* the approachName of the result names the approach whose order the working
\* copy is in.
C19_SortedByTheNamedKey ==
    (op = "knap" /\ fk.pc \in {"select", "done"}) =>
        /\ IsPermutationOf(Temp(fk), MapBoxes(fk.boxes))
        /\ OrderedByKey(Temp(fk), fk.approach)
        /\ fk.boxes = ExampleBoxes =>
              \A other \in Approaches \ {fk.approach} :
                  [k \in DOMAIN Temp(fk) |-> Temp(fk)[k].index] # OrderUnder(other)
        /\ fk.pc = "done" =>
              /\ NamedApproach(fk.ret.approachName) = fk.approach
              /\ OrderedByKey(Temp(fk), NamedApproach(fk.ret.approachName))

\* The example boxes were sorted by weight: first, third, second box, an
\* order that is neither by profit nor by ratio.
C19_Witness ==
    /\ KnapDone /\ fk.boxes = ExampleBoxes /\ fk.approach = 1
    /\ fk.ret.approachName = "Weight-based"
    /\ Temp(fk)[0].index = 0 /\ Temp(fk)[1].index = 2 /\ Temp(fk)[2].index = 1
    /\ ~OrderedByKey(Temp(fk), 2)
    /\ ~OrderedByKey(Temp(fk), 3)

Fractional(selected) == {k \in DOMAIN selected : FLess(selected[k].fraction, Whole(1))}

\* C24: for boxes of positive weight, at most one record of the selection
\* returned has a fraction below 1, that record is the last one, and when
\* there is one the remaining capacity is 0.
C24_AtMostOneFractionLast ==
    (KnapDone /\ PositiveWeights(fk.boxes)) =>
        LET sel == fk.ret.selectedBoxes
        IN  /\ Cardinality(Fractional(sel)) <= 1
            /\ \A k \in Fractional(sel) : k = ALen(sel) - 1
            /\ Fractional(sel) # {} => fk.ret.remainingCapacity = 0

\* The first box was split and a second box of positive weight was left
\* untaken.
C24_Witness ==
    /\ KnapDone /\ PositiveWeights(fk.boxes)
    /\ ALen(fk.boxes) = 2
    /\ ALen(fk.ret.selectedBoxes) = 1
    /\ Fractional(fk.ret.selectedBoxes) = {0}
    /\ fk.ret.remainingCapacity = 0

-----------------------------------------------------------------------------
(* Dashboard: what the claims compare the code with *)

\* The timer callback called tsp and stored what it returned; the matrix it
\* passed is the distanceMatrix of the result.
DashTspStored == op = "dash" /\ ui.result.type = "tsp"

\* C26 (as claimed): the matrix the dashboard builds from the edge-list text
\* and passes to tsp is symmetric and has a zero diagonal, whatever edges the
\* text names and in whatever order.
C26_DashboardMatrixSymmetricZeroDiagonal ==
    DashTspStored =>
        LET D == ui.result.distanceMatrix
        IN  /\ \A i \in DOMAIN D : \A k \in DOMAIN D : D[i][k] = D[k][i]
            /\ \A i \in DOMAIN D : D[i][i] = 0

\* C28 (as claimed): once Reset or an algorithm button has been pressed, the
\* result stays empty and the animation hidden until Calculate is pressed
\* again, also when the timer of a calculation is pending at the press.
C28_ResetHoldsUntilCalculate ==
    (op = "dash" /\ ui.cleared) => (ui.result = NoResult /\ ~ui.showAnimation)

\* An animation is on the screen (line 865).
DashAnimating == op = "dash" /\ ui.showAnimation /\ ui.result # NoResult

\* C29 (as claimed): while an animation plays currentStep is an index of the
\* sequence animated, 0 <= currentStep <= steps - 1, it never decreases, and
\* it stays at steps - 1 once there; for every result, a one-vertex path and
\* an empty selection included.
C29_CurrentStepIsValidIndex ==
    /\ [](DashAnimating =>
            /\ 0 <= ui.currentStep
            /\ ui.currentStep <= AnimationSteps(ui.result) - 1)
    /\ [][(DashAnimating /\ DashAnimating')
            => /\ ui'.currentStep >= ui.currentStep
               /\ ui.currentStep = AnimationSteps(ui.result) - 1
                    => ui'.currentStep = ui.currentStep]_vars

\* The dashboard alone, with what the code does by itself: the timer fires
\* after its 800 ms, a callback that has started runs on, and the interval
\* ticks.  A press of a button is up to the user.
CallbackStep ==
    \/ MseStart \/ MseEdge \/ MseSolve \/ MseEnd
    \/ MsgEnter \/ MsgBackward \/ MsgPathInit \/ MsgPathStep \/ MsgReturn
    \/ TspEnter \/ TspVisit \/ TspClose
    \/ KnapEnter \/ KnapSelect \/ KnapReturn
    \/ DashTspEdge \/ DashTspCall \/ DashPackage \/ DashKnapsackCall
    \/ DashCallbackEnd

LiveSpec ==
    /\ InitDash
    /\ [][Next]_vars
    /\ WF_vars(DashTimerFires)
    /\ WF_vars(CallbackStep)
    /\ WF_vars(DashTick)

\* A calculation is pending: its timer has not fired, or its callback runs.
DashPending == op = "dash" /\ (ui.timer # "none" \/ ui.pc = "callback")

\* C30 (as claimed): a calculation is pending only while isCalculating, which
\* disables Calculate; every press of Calculate is followed by isCalculating
\* going back to false; and it goes back with exactly one outcome: a result
\* stored and the animation shown, or an error reported and the result left
\* empty.
C30_EveryCalculationEnds ==
    /\ [](DashPending => ui.isCalculating)
    /\ [][(op = "dash" /\ ui.isCalculating /\ ~ui'.isCalculating)
            => \/ /\ ui'.toasts = Append(ui.toasts, "success")
                  /\ ui'.result # NoResult /\ ui'.showAnimation
               \/ /\ ui'.toasts = Append(ui.toasts, "error")
                  /\ ui'.result = NoResult /\ ~ui'.showAnimation]_vars
    /\ (op = "dash" /\ ui.isCalculating) ~> ~ui.isCalculating

=============================================================================
